---- MODULE Spec2Model ----
(***************************************************************************)
(* SnapshotListener, Deferred (common/util.ts) and CancellationToken /     *)
(* CancellationTokenSource (common/cancellation_token.ts) as one state     *)
(* machine.  Every action is one synchronous segment of JavaScript: code   *)
(* between two await points runs without interleaving, and the             *)
(* continuation of an await is a separate step that may run any time after *)
(* the awaited promise has settled.                                        *)
(***************************************************************************)
EXTENDS Integers, Sequences, FiniteSets, TLC

\* ---------------------------------------------------------------- bounds
MaxEvents == 3      \* observer.next calls
MaxCalls == 2       \* waitForSnapshot calls
MaxRegs == 1        \* onCancelled calls made by other consumers of the token
MaxInvoked == 2     \* invocations counted per consumer callback
MaxHandles == 3     \* Deferreds other consumers register with the token
MaxOps == 3         \* resolve and reject calls made on one Deferred
MaxObservers == 2   \* reactions attached to that Deferred's promise
MaxPlatformCalls == 4 \* calls made to the functions of the platform module
MaxCount == 3       \* largest count passed to randomIds
MaxLength == 3      \* largest length passed to randomId and randomIds
MaxFirestoreCalls == 3 \* calls made to getFirestore
MaxItems == 1001    \* longest item list passed to performWritesInBatches

\* ------------------------------------------------------------- constants
FirestoreErrors == {"E1", "E2"}
NoError == "null"
UsageError == "only one call to waitForSnapshotFromServer() at a time"
IllegalStateNotNull == "illegal state: this.onChange !== null"
IllegalStateNotOwn == "illegal state: this.onChange !== onChange"
CompletedError == "listener is completed"
DefaultCancelMessage == "operation cancelled"

\* new CancellationTokenCancelledError(message)
CancellationTokenCancelledError(message) ==
  "CancellationTokenCancelledError: " \o message

\* WaitForSnapshotOptions: a field is {} when undefined, else {b}
OptionValues == {{}, {TRUE}, {FALSE}}
WaitForSnapshotOptions == [hasPendingWrites : OptionValues, fromCache : OptionValues]
NoOptions == [hasPendingWrites |-> {}, fromCache |-> {}]

NoSnapshot == [id |-> 0, hasPendingWrites |-> FALSE, fromCache |-> FALSE]
NoResult == [kind |-> "none", snapshot |-> NoSnapshot, error |-> ""]

VARIABLES
  snapshots,              \* SnapshotListener.snapshots
  error,                  \* SnapshotListener.error
  completed,              \* SnapshotListener.completed
  onChange,               \* SnapshotListener.onChange: 0 is null, d is the closure over Deferred d
  cancelled,              \* CancellationToken._cancelled
  onCancelledCallbacks,   \* CancellationToken._onCancelledCallbacks, in insertion order
  onCancelledDeferred,    \* CancellationToken._onCancelledDeferred
  deferreds,              \* every Deferred created by waitForSnapshot, by creation number
  symbols,                \* number of Symbol() keys created by onCancelled
  waitOptions,            \* the options the caller passes to waitForSnapshot
  calls,                  \* every waitForSnapshot call made so far, in call order
  regs,                   \* every onCancelled registration made by other consumers
  nextEvent,              \* number of observer.next calls so far
  handles,                \* every Deferred another consumer made to register with the token
  lastCheck,              \* outcome of the latest throwIfCancelled call
  dfd,                    \* a Deferred<T> used on its own
  dfdOps,                 \* the resolve and reject calls made on dfd, in call order
  dfdSeen,                \* what each reaction attached to dfd.promise has received
  gPlatform,              \* platform.ts gPlatform: 0 is null, p is platform object p
  platformCalls,          \* the calls made to the platform module, with their outcomes
  randomCall,             \* the latest call made on a new Random(seed), with its outcome
  run,                    \* runTheTest: where the call is, and how it settled
  firestore,              \* firestore_helper.ts: the two caches and the calls made so far
  node,                   \* node/index.ts go(): where the call is and what it has done
  batch                   \* the latest performWritesInBatches call, with what it did

vars == <<snapshots, error, completed, onChange, cancelled, onCancelledCallbacks,
          onCancelledDeferred, deferreds, symbols, waitOptions, calls, regs,
          nextEvent, handles, lastCheck, dfd, dfdOps, dfdSeen, gPlatform,
          platformCalls, randomCall, run, firestore, node, batch>>

listenerVars == <<snapshots, error, completed, onChange, waitOptions, calls, regs,
                  nextEvent>>
consumerVars == <<handles, lastCheck>>
deferredVars == <<dfd, dfdOps, dfdSeen>>
utilVars == <<gPlatform, platformCalls, randomCall>>
appVars == <<firestore, node, batch>>

\* ---------------------------------------------------------------- Deferred
\* new Deferred(): the promise is pending, with no result and no error
NewDeferred == [state |-> "pending", result |-> "", error |-> ""]

\* the result of resolve() on a Deferred<void>
Undefined == "undefined"

\* variant: a later resolve replaces the outcome
DeferredResolve_Overwrites(d, result) ==
  [state |-> "resolved", result |-> result, error |-> ""]

\* Deferred.resolve: the promise's resolve function; no effect once settled
DeferredResolve(d, result) ==
  IF d.state = "pending"
  THEN [state |-> "resolved", result |-> result, error |-> ""]
  ELSE d

\* variant: a rejection replaces an earlier outcome
DeferredReject_Overwrites(d, err) ==
  [state |-> "rejected", result |-> "", error |-> err]

\* Deferred.reject: the promise's reject function; no effect once settled
DeferredReject(d, err) ==
  IF d.state = "pending"
  THEN [state |-> "rejected", result |-> "", error |-> err]
  ELSE d

\* ------------------------------------------------------- CancellationToken
\* A callback is [id, kind, target, message]: kind "reject" is the closure made
\* by registerDeferred over Deferred target, kind "user" is the counting
\* callback of consumer registration target, which also notes what it sees
\* of the token.  st is what a callback can touch, [deferreds, regs], and in
\* cancel() what it can see, [token].
InvokeCallback(cb, st) ==
  IF cb.kind = "reject"
  THEN [st EXCEPT !.deferreds[cb.target] =
          DeferredReject(@, CancellationTokenCancelledError(cb.message))]
  ELSE [st EXCEPT !.regs[cb.target].invoked = @ + 1,
                  !.regs[cb.target].observed = st.token]

\* variant: the loop stops after the first callback
ForEachCallback_FirstOnly(cbs, st) ==
  IF cbs = <<>> THEN st ELSE InvokeCallback(Head(cbs), st)

\* _onCancelledCallbacks.forEach(callback => callback())
RECURSIVE ForEachCallback(_, _)
ForEachCallback(cbs, st) ==
  IF cbs = <<>> THEN st
  ELSE ForEachCallback(Tail(cbs), InvokeCallback(Head(cbs), st))

\* what a callback sees of the token when it runs: the cancelled getter and
\* the state of the promise getter's promise
TokenView(isCancelled, d) == [cancelled |-> isCancelled, promise |-> d.state]

\* a consumer callback that has not run has seen nothing
NotObserved == [cancelled |-> FALSE, promise |-> "none"]

\* variant: the flag is flipped instead of set
TokenCancel_Toggle(tok, st) ==
  LET d == DeferredResolve(tok.onCancelledDeferred, Undefined)
  IN  [cancelled |-> ~tok.cancelled,
       onCancelledDeferred |-> d,
       st |-> ForEachCallback(tok.onCancelledCallbacks,
                [st EXCEPT !.token = TokenView(~tok.cancelled, d)])]

\* variant: the callbacks run before the flag is set and the promise resolved
TokenCancel_CallbacksFirst(tok, st) ==
  LET d == DeferredResolve(tok.onCancelledDeferred, Undefined)
  IN  [cancelled |-> TRUE,
       onCancelledDeferred |-> d,
       st |-> ForEachCallback(tok.onCancelledCallbacks,
                [st EXCEPT !.token = TokenView(tok.cancelled, tok.onCancelledDeferred)])]

\* CancellationToken[CANCELLATION_TOKEN_CANCEL]: set the flag, resolve the
\* promise, then run the callbacks
TokenCancel(tok, st) ==
  LET d == DeferredResolve(tok.onCancelledDeferred, Undefined)
  IN  [cancelled |-> TRUE,
       onCancelledDeferred |-> d,
       st |-> ForEachCallback(tok.onCancelledCallbacks,
                [st EXCEPT !.token = TokenView(TRUE, d)])]

\* variant: the callback is stored even when it was invoked at once
TokenOnCancelled_AlwaysStores(isCancelled, cbs, syms, callback) ==
  [invoke |-> isCancelled,
   callbacks |-> Append(cbs, [callback EXCEPT !.id = syms + 1]),
   symbols |-> syms + 1,
   unregister |-> IF isCancelled THEN 0 ELSE syms + 1]

\* variant: on a cancelled token the callback is stored and not invoked
TokenOnCancelled_StoresOnly(isCancelled, cbs, syms, callback) ==
  [invoke |-> FALSE,
   callbacks |-> Append(cbs, [callback EXCEPT !.id = syms + 1]),
   symbols |-> syms + 1,
   unregister |-> syms + 1]

\* CancellationToken.onCancelled: invoke now when cancelled, else store under a new Symbol
TokenOnCancelled(isCancelled, cbs, syms, callback) ==
  IF isCancelled
  THEN [invoke |-> TRUE, callbacks |-> cbs, symbols |-> syms, unregister |-> 0]
  ELSE [invoke |-> FALSE,
        callbacks |-> Append(cbs, [callback EXCEPT !.id = syms + 1]),
        symbols |-> syms + 1,
        unregister |-> syms + 1]

\* the message argument of registerDeferred: {} when undefined, else {m}
NoMessage == {}

\* variant: the message argument is dropped
RejectCallback_DefaultMessage(d, message) ==
  [id |-> 0, kind |-> "reject", target |-> d, message |-> DefaultCancelMessage]

\* the closure registerDeferred passes to onCancelled: message ?? 'operation cancelled'
RejectCallback(d, message) ==
  [id |-> 0, kind |-> "reject", target |-> d,
   message |-> IF message = {} THEN DefaultCancelMessage
               ELSE CHOOSE m \in message : TRUE]

\* variant: the closure is never handed to onCancelled
TokenRegisterDeferred_NotRegistered(isCancelled, cbs, syms, d, message) ==
  [invoke |-> FALSE, callbacks |-> cbs, symbols |-> syms, unregister |-> 0]

\* CancellationToken.registerDeferred
TokenRegisterDeferred(isCancelled, cbs, syms, d, message) ==
  TokenOnCancelled(isCancelled, cbs, syms, RejectCallback(d, message))

\* variant: Map.clear() in place of Map.delete(u)
Unregister_RemovesAll(cbs, u) ==
  IF u = 0 THEN cbs ELSE <<>>

\* the function returned by onCancelled: () => {} when u = 0, else Map.delete(u)
Unregister(cbs, u) ==
  SelectSeq(cbs, LAMBDA cb : cb.id # u)

\* the outcome of a throwIfCancelled call; none before the first call
NoCheck == [kind |-> "none", error |-> ""]

\* variant: the test is inverted
TokenThrowIfCancelled_Inverted(isCancelled) ==
  IF ~isCancelled
  THEN [kind |-> "threw",
        error |-> CancellationTokenCancelledError(DefaultCancelMessage)]
  ELSE [kind |-> "returned", error |-> ""]

\* CancellationToken.throwIfCancelled
TokenThrowIfCancelled(isCancelled) ==
  IF isCancelled
  THEN [kind |-> "threw",
        error |-> CancellationTokenCancelledError(DefaultCancelMessage)]
  ELSE [kind |-> "returned", error |-> ""]

\* ---------------------------------------------------------------- platform
\* gPlatform before setPlatform
NoPlatform == 0

\* the platform objects a caller passes to setPlatform
Platforms == {1, 2}

\* the functions of the module that need the platform
PlatformFunctions ==
  {"base64Encode", "calculateHash", "log", "getCurrentMonotonicTimeMilliseconds"}

AlreadyInvoked == "setPlatform() has already been invoked"
NotYetInvoked == "setPlatform() has not yet been invoked"

\* what platform object p's function fn returns
PlatformResult(p, fn) == [platform |-> p, fn |-> fn]

\* variant: a later call replaces the platform
SetPlatform_Overwrites(g, platform) ==
  [gPlatform |-> platform, kind |-> "returned", error |-> ""]

\* setPlatform
SetPlatform(g, platform) ==
  IF g # NoPlatform
  THEN [gPlatform |-> g, kind |-> "threw", error |-> AlreadyInvoked]
  ELSE [gPlatform |-> platform, kind |-> "returned", error |-> ""]

\* getPlatform
GetPlatform(g) ==
  IF g = NoPlatform
  THEN [kind |-> "threw", error |-> NotYetInvoked, value |-> NoPlatform]
  ELSE [kind |-> "returned", error |-> "", value |-> g]

\* base64Encode, calculateHash, log, getCurrentMonotonicTimeMilliseconds:
\* return getPlatform().fn(...)
PlatformCall(g, fn) ==
  LET p == GetPlatform(g)
  IN  IF p.kind = "threw"
      THEN [kind |-> "threw", error |-> p.error, value |-> PlatformResult(NoPlatform, fn)]
      ELSE [kind |-> "returned", error |-> "", value |-> PlatformResult(p.value, fn)]

\* ------------------------------------------------------------------ Random
RANDOM_ID_ALPHABET ==
  <<
   "A", "B", "C", "D", "E", "F", "G", "H", "I", "J", "K", "L", "M",
   "N", "O", "P", "Q", "R", "S", "T", "U", "V", "W", "X", "Y", "Z",
   "a", "b", "c", "d", "e", "f", "g", "h", "i", "j", "k", "l", "m",
   "n", "o", "p", "q", "r", "s", "t", "u", "v", "w", "x", "y", "z",
   "0", "1", "2", "3", "4", "5", "6", "7", "8", "9" >>

\* length ?? 20
DefaultLength == 20

\* the seeds a caller passes to new Random(seed)
Seeds == {0, 1, 2}

\* Math.floor(this.alea.next() * RANDOM_ID_ALPHABET.length) at the n-th draw
\* of a generator made from seed: some index of the alphabet
AleaIndex(seed, n) == (seed + n) % Len(RANDOM_ID_ALPHABET)

\* an optional length argument: {} when undefined, else {n}
Lengths == {{}} \cup {{n} : n \in -1..MaxLength}
Counts == -1..MaxCount

NoRandomCall == [fn |-> "none"]

\* `invalid length: ${length}` and `invalid count: ${count}`
InvalidLength(n) == "invalid length: " \o ToString(n)
InvalidCount(n) == "invalid count: " \o ToString(n)

\* Random.randomId, on a generator that has made `drawn` draws
RandomId(seed, drawn, length) ==
  IF length # {} /\ (CHOOSE n \in length : TRUE) < 0
  THEN [kind |-> "threw", error |-> InvalidLength(CHOOSE n \in length : TRUE),
        value |-> <<>>]
  ELSE LET resultLength == IF length = {} THEN DefaultLength
                           ELSE CHOOSE n \in length : TRUE
       IN  [kind |-> "returned", error |-> "",
            value |-> [i \in 1..resultLength |->
                         RANDOM_ID_ALPHABET[AleaIndex(seed, drawn + i) + 1]]]

\* variant: the length argument is handed on to randomId
RandomIds_PassesLength(seed, count, length) ==
  IF count < 0
  THEN [kind |-> "threw", error |-> InvalidCount(count), value |-> <<>>]
  ELSE [kind |-> "returned", error |-> "",
        value |-> [k \in 1..count |->
                     RandomId(seed, (k - 1) * DefaultLength, length).value]]

\* Random.randomIds: count times this.randomId(), with no argument
RandomIds(seed, count, length) ==
  IF count < 0
  THEN [kind |-> "threw", error |-> InvalidCount(count), value |-> <<>>]
  ELSE [kind |-> "returned", error |-> "",
        value |-> [k \in 1..count |->
                     RandomId(seed, (k - 1) * DefaultLength, {}).value]]

\* -------------------------------------------------------- SnapshotListener
Mismatch(desired, actual) ==
  desired # {} /\ actual \notin desired

\* variant: the fromCache test is missing
Matches_PendingWritesOnly(snapshot, options) ==
  ~Mismatch(options.hasPendingWrites, snapshot.hasPendingWrites)

\* the two tests of the inner loop body: neither specified flag differs
Matches(snapshot, options) ==
  /\ ~Mismatch(options.hasPendingWrites, snapshot.hasPendingWrites)
  /\ ~Mismatch(options.fromCache, snapshot.fromCache)

\* variant: snapshots are taken from the tail (pop) instead of the head
RECURSIVE Drain_Pop(_, _)
Drain_Pop(snaps, options) ==
  IF snaps = <<>>
  THEN [found |-> FALSE, snapshot |-> NoSnapshot, rest |-> <<>>]
  ELSE LET n == Len(snaps)
       IN  IF Matches(snaps[n], options)
           THEN [found |-> TRUE, snapshot |-> snaps[n], rest |-> SubSeq(snaps, 1, n - 1)]
           ELSE Drain_Pop(SubSeq(snaps, 1, n - 1), options)

\* variant: the buffer is emptied when a match is found
RECURSIVE Drain_DropsRest(_, _)
Drain_DropsRest(snaps, options) ==
  IF snaps = <<>>
  THEN [found |-> FALSE, snapshot |-> NoSnapshot, rest |-> <<>>]
  ELSE IF Matches(Head(snaps), options)
       THEN [found |-> TRUE, snapshot |-> Head(snaps), rest |-> <<>>]
       ELSE Drain_DropsRest(Tail(snaps), options)

\* the inner while loop: shift until a snapshot matches or the buffer is empty
RECURSIVE Drain(_, _)
Drain(snaps, options) ==
  IF snaps = <<>>
  THEN [found |-> FALSE, snapshot |-> NoSnapshot, rest |-> <<>>]
  ELSE IF Matches(Head(snaps), options)
       THEN [found |-> TRUE, snapshot |-> Head(snaps), rest |-> Tail(snaps)]
       ELSE Drain(Tail(snaps), options)

Threw(err) == [kind |-> "threw", snapshot |-> NoSnapshot, error |-> err]
Returned(s) == [kind |-> "returned", snapshot |-> s, error |-> ""]

\* the call settles: its promise carries res and its locals are gone
Finish(st, res) ==
  [st EXCEPT !.pc = "done", !.result = res, !.deferred = 0, !.unregister = 0]

\* variant: this.onChange is not assigned
Suspend_NoOnChange(st) ==
  LET d == Len(st.deferreds) + 1
      reg == TokenRegisterDeferred(cancelled, st.callbacks, st.symbols, d, NoMessage)
      made == Append(st.deferreds, NewDeferred)
  IN  [pc |-> "awaiting", result |-> NoResult, deferred |-> d,
       unregister |-> reg.unregister,
       snapshots |-> <<>>,
       onChange |-> st.onChange,
       deferreds |-> IF reg.invoke
                     THEN InvokeCallback(RejectCallback(d, NoMessage),
                                         [deferreds |-> made, regs |-> <<>>]).deferreds
                     ELSE made,
       callbacks |-> reg.callbacks,
       symbols |-> reg.symbols]

\* the part of a pass after the buffer held no match: the new Deferred, its
\* registration with the token, the wake callback, and the await
Suspend(st) ==
  LET d == Len(st.deferreds) + 1
      reg == TokenRegisterDeferred(cancelled, st.callbacks, st.symbols, d, NoMessage)
      made == Append(st.deferreds, NewDeferred)
  IN  [pc |-> "awaiting", result |-> NoResult, deferred |-> d,
       unregister |-> reg.unregister,
       snapshots |-> <<>>,
       onChange |-> d,
       deferreds |-> IF reg.invoke
                     THEN InvokeCallback(RejectCallback(d, NoMessage),
                                         [deferreds |-> made, regs |-> <<>>]).deferreds
                     ELSE made,
       callbacks |-> reg.callbacks,
       symbols |-> reg.symbols]

\* variant: each pass starts with a check of the token
LoopPass_ChecksToken(options, st) ==
  LET drained == Drain(st.snapshots, options)
  IN  IF st.onChange # 0 THEN Finish(st, Threw(IllegalStateNotNull))
      ELSE IF cancelled
           THEN Finish(st, Threw(CancellationTokenCancelledError(DefaultCancelMessage)))
      ELSE IF error # NoError THEN Finish(st, Threw(error))
      ELSE IF completed THEN Finish(st, Threw(CompletedError))
      ELSE IF drained.found
           THEN [Finish(st, Returned(drained.snapshot)) EXCEPT !.snapshots = drained.rest]
      ELSE Suspend(st)

\* variant: the buffer is drained before the error and completed tests
LoopPass_DrainFirst(options, st) ==
  LET drained == Drain(st.snapshots, options)
  IN  IF st.onChange # 0 THEN Finish(st, Threw(IllegalStateNotNull))
      ELSE IF drained.found
           THEN [Finish(st, Returned(drained.snapshot)) EXCEPT !.snapshots = drained.rest]
      ELSE IF error # NoError THEN Finish([st EXCEPT !.snapshots = <<>>], Threw(error))
      ELSE IF completed THEN Finish([st EXCEPT !.snapshots = <<>>], Threw(CompletedError))
      ELSE Suspend(st)

\* variant: the completed test comes before the error test
LoopPass_CompletedFirst(options, st) ==
  LET drained == Drain(st.snapshots, options)
  IN  IF st.onChange # 0 THEN Finish(st, Threw(IllegalStateNotNull))
      ELSE IF completed THEN Finish(st, Threw(CompletedError))
      ELSE IF error # NoError THEN Finish(st, Threw(error))
      ELSE IF drained.found
           THEN [Finish(st, Returned(drained.snapshot)) EXCEPT !.snapshots = drained.rest]
      ELSE Suspend(st)

\* One pass of the while (true) loop, up to its return, throw or await.
\* st is [snapshots, onChange, deferreds, callbacks, symbols].
LoopPass(options, st) ==
  LET drained == Drain(st.snapshots, options)
  IN  IF st.onChange # 0 THEN Finish(st, Threw(IllegalStateNotNull))
      ELSE IF error # NoError THEN Finish(st, Threw(error))
      ELSE IF completed THEN Finish(st, Threw(CompletedError))
      ELSE IF drained.found
           THEN [Finish(st, Returned(drained.snapshot)) EXCEPT !.snapshots = drained.rest]
      ELSE Suspend(st)

\* variant: the test at the top of waitForSnapshot is missing
WaitEntry_NoGuard(options, st) ==
  LoopPass(options, st)

\* variant: the test at the top sits inside the try block whose finally
\* clears this.onChange
WaitEntry_DropsWaiter(options, st) ==
  IF st.onChange # 0
  THEN Finish([st EXCEPT !.onChange = 0], Threw(UsageError))
  ELSE LoopPass(options, st)

\* waitForSnapshot from its entry to its first return, throw or await
WaitEntry(options, st) ==
  IF st.onChange # 0
  THEN Finish(st, Threw(UsageError))
  ELSE LoopPass(options, st)

\* variant: the outer finally does not call unregisterDeferred
WaitResume_NoUnregister(call, options, st) ==
  LET own == st.onChange = call.deferred
      after == [st EXCEPT !.onChange = IF own THEN 0 ELSE @]
      dd == st.deferreds[call.deferred]
  IN  IF ~own THEN Finish(after, Threw(IllegalStateNotOwn))
      ELSE IF dd.state = "rejected"
           THEN Finish(after, Threw(dd.error))
      ELSE LoopPass(options, after)

\* the continuation of `await deferred.promise`: both finally blocks, then
\* either the rejection propagates or the loop runs its next pass
WaitResume(call, options, st) ==
  LET own == st.onChange = call.deferred
      after == [st EXCEPT !.onChange = IF own THEN 0 ELSE @,
                          !.callbacks = Unregister(@, call.unregister)]
      dd == st.deferreds[call.deferred]
  IN  IF ~own THEN Finish(after, Threw(IllegalStateNotOwn))
      ELSE IF dd.state = "rejected"
           THEN Finish(after, Threw(dd.error))
      ELSE LoopPass(options, after)

ListenerState ==
  [pc |-> "entry", result |-> NoResult, deferred |-> 0, unregister |-> 0,
   snapshots |-> snapshots, onChange |-> onChange, deferreds |-> deferreds,
   callbacks |-> onCancelledCallbacks, symbols |-> symbols]

Install(r) ==
  /\ snapshots' = r.snapshots
  /\ onChange' = r.onChange
  /\ deferreds' = r.deferreds
  /\ onCancelledCallbacks' = r.callbacks
  /\ symbols' = r.symbols

\* a call's frame: its position, the locals of its current pass, its outcome
CallRecord(r) ==
  [pc |-> r.pc, deferred |-> r.deferred, unregister |-> r.unregister,
   result |-> r.result]

\* -------------------------------------------------------- firestore_helper
\* type FirestoreHost
FirestoreHosts == {"prod", "emulator", "nightly", "qa"}

\* hostNameFromHost
HostNameFromHost(host) ==
  CASE host = "prod" -> "firestore.googleapis.com"
    [] host = "emulator" -> "127.0.0.1"
    [] host = "nightly" -> "test-firestore.sandbox.googleapis.com"
    [] host = "qa" -> "staging-firestore.sandbox.googleapis.com"

PlaceholderPrefix == "REPLACE_WITH_YOUR_"

\* isPlaceholderValue: value.startsWith('REPLACE_WITH_YOUR_')
IsPlaceholderValue(value) ==
  /\ Len(value) >= Len(PlaceholderPrefix)
  /\ SubSeq(value, 1, Len(PlaceholderPrefix)) = PlaceholderPrefix

PlaceholderProjectIdNotAllowedError ==
  "The Project ID needs to be set in firebase_config.ts, or in the " \o
  "Settings, unless using the Firestore emulator."

\* instanceId ?? null: {} is null, {n} is the number n
NoInstanceId == {}

\* FirebaseObjectCacheKey
FirebaseObjectCacheKey(host, projectId, apiKey, instanceId) ==
  [host |-> host, projectId |-> projectId, apiKey |-> apiKey,
   instanceId |-> instanceId]

CanonicalStringWithoutInstanceId(key) ==
  key.host \o "%" \o key.projectId \o "%" \o key.apiKey

CanonicalString(key) ==
  CanonicalStringWithoutInstanceId(key) \o
    (IF key.instanceId = NoInstanceId THEN ""
     ELSE "%" \o ToString(CHOOSE n \in key.instanceId : TRUE))

\* the base64 text of the hash of s without its trailing '=' characters;
\* strings that differ are taken to have hashes that differ
HashBase64Clean(s) == "md5/" \o s

AppName(key) ==
  HashBase64Clean(CanonicalStringWithoutInstanceId(key)) \o
    (IF key.instanceId = NoInstanceId THEN ""
     ELSE "-" \o ToString(CHOOSE n \in key.instanceId : TRUE))

\* FirebaseObjectCache: the Map as its entries in insertion order
CacheHas(cache, keyString) ==
  \E i \in 1..Len(cache) : cache[i].key = keyString

NoEntry == [found |-> FALSE]

\* variant: the lookup never finds an entry
CacheGet_Misses(cache, key) == NoEntry

\* FirebaseObjectCache.get
CacheGet(cache, key) ==
  IF CacheHas(cache, CanonicalString(key))
  THEN [found |-> TRUE,
        value |-> cache[CHOOSE i \in 1..Len(cache) :
                          cache[i].key = CanonicalString(key)].value]
  ELSE NoEntry

AlreadyExists(keyString) == "Entry for " \o keyString \o " already exists"

\* FirebaseObjectCache.set
CacheSet(cache, key, value) ==
  LET keyString == CanonicalString(key)
  IN  IF CacheHas(cache, keyString)
      THEN [kind |-> "threw", error |-> AlreadyExists(keyString), cache |-> cache]
      ELSE [kind |-> "returned", error |-> "",
            cache |-> Append(cache, [key |-> keyString, value |-> value])]

\* FirestoreCacheEntry.toFirestoreInfo
ToFirestoreInfo(entry) ==
  [db |-> entry.db, appName |-> AppName(entry.key),
   projectId |-> entry.key.projectId, apiKey |-> entry.key.apiKey,
   host |-> entry.key.host, hostName |-> HostNameFromHost(entry.key.host),
   ssl |-> entry.ssl]

NoInfo == [db |-> 0]

\* the module before its first use: both caches empty, and no call made to
\* initializeApp, getFirestore or initializeFirestore
NoFirestore ==
  [firebaseAppCache |-> <<>>, firestoreInstanceCache |-> <<>>,
   debugLogApplied |-> FALSE, initializeApp |-> <<>>, created |-> <<>>,
   calls |-> <<>>]

FirestoreThrew(fs, err) ==
  [kind |-> "threw", error |-> err, info |-> NoInfo, firestore |-> fs]

\* getOrCreateFirestore from the cache miss on: the app, the Firestore
\* object, the emulator connection and the new cache entry
CreateFirestore(fs, cacheKey) ==
  LET cachedApp == CacheGet(fs.firebaseAppCache, cacheKey)
      app == IF cachedApp.found THEN cachedApp.value.app
             ELSE Len(fs.initializeApp) + 1
      appSet == CacheSet(fs.firebaseAppCache, cacheKey,
                         [app |-> app, key |-> cacheKey])
      withApp ==
        IF cachedApp.found THEN fs
        ELSE [fs EXCEPT
               !.initializeApp = Append(@, [name |-> AppName(cacheKey),
                                            projectId |-> cacheKey.projectId,
                                            apiKey |-> cacheKey.apiKey,
                                            key |-> cacheKey]),
               !.firebaseAppCache = appSet.cache]
      db == Len(fs.created) + 1
      ssl == cacheKey.host # "emulator"
      withDb ==
        [withApp EXCEPT
          !.created = Append(@,
            [app |-> app,
             via |-> IF cacheKey.host \in {"prod", "emulator"}
                     THEN "getFirestore" ELSE "initializeFirestore",
             host |-> IF cacheKey.host \in {"prod", "emulator"}
                      THEN "" ELSE HostNameFromHost(cacheKey.host),
             emulator |-> IF ssl THEN ""
                          ELSE HostNameFromHost(cacheKey.host),
             key |-> cacheKey])]
      entry == [db |-> db, key |-> cacheKey, ssl |-> ssl]
      dbSet == CacheSet(fs.firestoreInstanceCache, cacheKey, entry)
  IN  IF ~cachedApp.found /\ appSet.kind = "threw"
      THEN FirestoreThrew(
             [fs EXCEPT !.initializeApp =
                Append(@, [name |-> AppName(cacheKey),
                           projectId |-> cacheKey.projectId,
                           apiKey |-> cacheKey.apiKey, key |-> cacheKey])],
             appSet.error)
      ELSE IF dbSet.kind = "threw"
           THEN FirestoreThrew(withDb, dbSet.error)
      ELSE [kind |-> "returned", error |-> "", info |-> ToFirestoreInfo(entry),
            firestore |-> [withDb EXCEPT !.firestoreInstanceCache = dbSet.cache]]

\* getOrCreateFirestore(settings, instanceId); g is the platform, which the
\* app name and every log call need
GetOrCreateFirestore(fs, g, settings, instanceId) ==
  LET cacheKey == FirebaseObjectCacheKey(settings.host, settings.projectId,
                                         settings.apiKey, instanceId)
      applied == [fs EXCEPT !.debugLogApplied = TRUE]
      cachedDb == CacheGet(fs.firestoreInstanceCache, cacheKey)
      platform == GetPlatform(g)
  IN  IF settings.host # "emulator" /\ IsPlaceholderValue(settings.projectId)
      THEN FirestoreThrew(fs, PlaceholderProjectIdNotAllowedError)
      ELSE IF platform.kind = "threw"
           THEN FirestoreThrew(applied, platform.error)
      ELSE IF cachedDb.found
           THEN [kind |-> "returned", error |-> "",
                 info |-> ToFirestoreInfo(cachedDb.value), firestore |-> applied]
      ELSE CreateFirestore(applied, cacheKey)

\* ------------------------------------------------------------ node/index.ts
\* go() before its first statement: nothing logged, no death handler
NotStarted ==
  [pc |-> "start", death |-> "none", terminated |-> 0, log |-> <<>>,
   escaped |-> "", db |-> 0]

\* new NodePlatformImpl()
NodePlatformImpl == 1

CancelledErrorName == "CancellationTokenCancelledError: "

\* e.message: the text of the error without the name of its class
ErrorMessage(err) ==
  IF /\ Len(err) >= Len(CancelledErrorName)
     /\ SubSeq(err, 1, Len(CancelledErrorName)) = CancelledErrorName
  THEN SubSeq(err, Len(CancelledErrorName) + 1, Len(err))
  ELSE err

\* log(text)
GoLog(n, text) == [n EXCEPT !.log = Append(@, text)]

\* variant: the outer finally block is missing
GoCatchFinally_NoUnsubscribe(n, err) ==
  LET caught == IF err = "" THEN n ELSE GoLog(n, "ERROR: " \o ErrorMessage(err))
  IN  [GoLog(caught, "Test completed") EXCEPT !.pc = "done"]

\* the end of go(): the catch block when err was thrown ("" when nothing
\* was), the outer finally block, and the last log call
GoCatchFinally(n, err) ==
  LET caught == IF err = "" THEN n ELSE GoLog(n, "ERROR: " \o ErrorMessage(err))
      unsubscribed ==
        [caught EXCEPT !.death = IF @ = "installed" THEN "unsubscribed" ELSE @]
  IN  [GoLog(unsubscribed, "Test completed") EXCEPT !.pc = "done"]

\* go() from log('Test Started') to the call of runTheTest, given what
\* getFirestore(settings) did
GoEnter(n, got) ==
  LET started == GoLog(n, "Test Started")
  IN  IF got.kind = "threw"
      THEN GoCatchFinally(started, got.error)
      ELSE [started EXCEPT !.db = got.info.db, !.death = "installed",
                           !.pc = "running"]

\* the inner finally block up to its await: terminate(env.db) is called
GoTerminate(n) ==
  [GoLog(n, "Terminating Firestore") EXCEPT !.terminated = @ + 1,
                                            !.pc = "terminating"]

\* what leaves the inner try statement: the rejection of terminate, else
\* what runTheTest threw, else nothing
GoInnerError(terminateError, ran) ==
  IF terminateError # "" THEN terminateError
  ELSE IF ran.kind = "threw" THEN ran.error
  ELSE ""

\* --------------------------------------------------- performWritesInBatches
\* the number of writes after which a batch is closed
BatchLimit == 500

\* no call made yet
NoBatch == [fn |-> "none"]

\* the locals before the loop; batch 0 is null, batch b is the b-th one
\* that writeBatch(db) returned
BatchStart ==
  [writeBatches |-> <<>>, writeBatch_ |-> 0, currentWriteBatchWriteCount |-> 0,
   created |-> 0, callbacks |-> <<>>]

\* one iteration of the for loop
BatchItem(st, item) ==
  LET opened ==
        IF st.writeBatch_ = 0
        THEN [st EXCEPT !.created = @ + 1, !.writeBatch_ = st.created + 1,
                        !.currentWriteBatchWriteCount = 0]
        ELSE st
      called ==
        [opened EXCEPT
          !.callbacks = Append(@, [batch |-> opened.writeBatch_, item |-> item]),
          !.currentWriteBatchWriteCount = @ + 1]
  IN  IF called.currentWriteBatchWriteCount = BatchLimit
      THEN [called EXCEPT !.writeBatches = Append(@, called.writeBatch_),
                          !.writeBatch_ = 0]
      ELSE called

RECURSIVE BatchLoop(_, _, _, _)
\* for (const item of items): the iterations for items lo..hi, in order
\* (the range is split in two, and the first half is evaluated before the
\* second starts, so that long lists do not nest deeply)
BatchLoop(st, items, lo, hi) ==
  IF lo > hi THEN st
  ELSE IF lo = hi THEN BatchItem(st, items[lo])
  ELSE LET mid == (lo + hi) \div 2
           first == BatchLoop(st, items, lo, mid)
       IN  IF first.created >= 0
           THEN BatchLoop(first, items, mid + 1, hi)
           ELSE first

\* variant: the batch left open by the loop is not pushed
PerformWritesInBatches_DropsLast(items) ==
  LET st == BatchLoop(BatchStart, items, 1, Len(items))
  IN  [fn |-> "performWritesInBatches", items |-> items,
       created |-> st.created, callbacks |-> st.callbacks,
       commits |-> st.writeBatches]

\* performWritesInBatches(db, items, callback): the batches created, the
\* callback calls made, and the batches committed, each in order
PerformWritesInBatches(items) ==
  LET st == BatchLoop(BatchStart, items, 1, Len(items))
      writeBatches == IF st.writeBatch_ # 0
                      THEN Append(st.writeBatches, st.writeBatch_)
                      ELSE st.writeBatches
  IN  [fn |-> "performWritesInBatches", items |-> items,
       created |-> st.created, callbacks |-> st.callbacks,
       commits |-> writeBatches]

\* ------------------------------------------------------------------ state
Init ==
  /\ snapshots = <<>>
  /\ error = NoError
  /\ completed = FALSE
  /\ onChange = 0
  /\ cancelled = FALSE
  /\ onCancelledCallbacks = <<>>
  /\ onCancelledDeferred = NewDeferred
  /\ deferreds = <<>>
  /\ symbols = 0
  /\ waitOptions \in WaitForSnapshotOptions
  /\ calls = <<>>
  /\ regs = <<>>
  /\ nextEvent = 0
  /\ handles = <<>>
  /\ lastCheck = NoCheck
  /\ dfd = NewDeferred
  /\ dfdOps = <<>>
  /\ dfdSeen = <<>>
  /\ gPlatform = NoPlatform
  /\ platformCalls = <<>>
  /\ randomCall = NoRandomCall
  /\ run = [pc |-> "counting", kind |-> "none", error |-> ""]
  /\ firestore = NoFirestore
  /\ node = NotStarted
  /\ batch = NoBatch

\* ---------------------------------------------------------------- actions
\* a caller invokes listener.waitForSnapshot(options)
WaitForSnapshot ==
  /\ Len(calls) < MaxCalls
  /\ LET r == WaitEntry(waitOptions, ListenerState)
     IN  /\ Install(r)
         /\ calls' = Append(calls, CallRecord(r))
  /\ UNCHANGED <<error, completed, cancelled, onCancelledDeferred, waitOptions,
                 regs, nextEvent>>
  /\ UNCHANGED <<consumerVars, deferredVars>>
  /\ UNCHANGED utilVars
  /\ UNCHANGED run
  /\ UNCHANGED appVars

\* the event loop runs the continuation of a call whose Deferred has settled
Resume ==
  /\ \E c \in 1..Len(calls) :
       /\ calls[c].pc = "awaiting"
       /\ deferreds[calls[c].deferred].state # "pending"
       /\ LET r == WaitResume(calls[c], waitOptions, ListenerState)
          IN  /\ Install(r)
              /\ calls' = [calls EXCEPT ![c] = CallRecord(r)]
  /\ UNCHANGED <<error, completed, cancelled, onCancelledDeferred, waitOptions,
                 regs, nextEvent>>
  /\ UNCHANGED <<consumerVars, deferredVars>>
  /\ UNCHANGED utilVars
  /\ UNCHANGED run
  /\ UNCHANGED appVars

\* variant: the observer does not call this.onChange
Wake_Never(ds, oc) == ds

\* this.onChange?.()
Wake(ds, oc) ==
  IF oc = 0 THEN ds ELSE [ds EXCEPT ![oc] = DeferredResolve(@, Undefined)]

ObserverNext ==
  /\ nextEvent < MaxEvents
  /\ \E hpw \in BOOLEAN, fc \in BOOLEAN :
       snapshots' = Append(snapshots,
          [id |-> nextEvent + 1, hasPendingWrites |-> hpw, fromCache |-> fc])
  /\ nextEvent' = nextEvent + 1
  /\ deferreds' = Wake(deferreds, onChange)
  /\ UNCHANGED <<error, completed, onChange, cancelled, onCancelledCallbacks,
                 onCancelledDeferred, symbols, waitOptions, calls, regs>>
  /\ UNCHANGED <<consumerVars, deferredVars>>
  /\ UNCHANGED utilVars
  /\ UNCHANGED run
  /\ UNCHANGED appVars

ObserverError ==
  /\ \E e \in FirestoreErrors : error' = e
  /\ deferreds' = Wake(deferreds, onChange)
  /\ UNCHANGED <<snapshots, completed, onChange, cancelled, onCancelledCallbacks,
                 onCancelledDeferred, symbols, waitOptions, calls, regs, nextEvent>>
  /\ UNCHANGED <<consumerVars, deferredVars>>
  /\ UNCHANGED utilVars
  /\ UNCHANGED run
  /\ UNCHANGED appVars

ObserverComplete ==
  /\ completed' = TRUE
  /\ deferreds' = Wake(deferreds, onChange)
  /\ UNCHANGED <<snapshots, error, onChange, cancelled, onCancelledCallbacks,
                 onCancelledDeferred, symbols, waitOptions, calls, regs, nextEvent>>
  /\ UNCHANGED <<consumerVars, deferredVars>>
  /\ UNCHANGED utilVars
  /\ UNCHANGED run
  /\ UNCHANGED appVars

\* variant: splice(1), which keeps the oldest snapshot
ListenerClear_KeepsHead(snaps) ==
  IF snaps = <<>> THEN <<>> ELSE <<Head(snaps)>>

\* this.snapshots.splice(0)
ListenerClear(snaps) == <<>>

Clear ==
  /\ snapshots' = ListenerClear(snapshots)
  /\ UNCHANGED <<error, completed, onChange, cancelled, onCancelledCallbacks,
                 onCancelledDeferred, deferreds, symbols, waitOptions, calls, regs, nextEvent>>
  /\ UNCHANGED <<consumerVars, deferredVars>>
  /\ UNCHANGED utilVars
  /\ UNCHANGED run
  /\ UNCHANGED appVars

\* CancellationTokenSource.cancel
Cancel ==
  /\ \A k \in 1..Len(regs) : regs[k].invoked < MaxInvoked
  /\ LET r == TokenCancel([cancelled |-> cancelled,
                           onCancelledCallbacks |-> onCancelledCallbacks,
                           onCancelledDeferred |-> onCancelledDeferred],
                          [deferreds |-> deferreds, regs |-> regs,
                           token |-> TokenView(cancelled, onCancelledDeferred)])
     IN  /\ cancelled' = r.cancelled
         /\ onCancelledDeferred' = r.onCancelledDeferred
         /\ deferreds' = r.st.deferreds
         /\ regs' = r.st.regs
  /\ UNCHANGED <<snapshots, error, completed, onChange, onCancelledCallbacks,
                 symbols, waitOptions, calls, nextEvent>>
  /\ UNCHANGED <<consumerVars, deferredVars>>
  /\ UNCHANGED utilVars
  /\ UNCHANGED run
  /\ UNCHANGED appVars

\* another consumer calls token.onCancelled(callback) with a counting callback
OnCancelled ==
  /\ Len(regs) < MaxRegs
  /\ LET k == Len(regs) + 1
         r == TokenOnCancelled(cancelled, onCancelledCallbacks, symbols,
                [id |-> 0, kind |-> "user", target |-> k, message |-> ""])
     IN  /\ regs' = Append(regs, [unregister |-> r.unregister,
                                  invoked |-> IF r.invoke THEN 1 ELSE 0,
                                  observed |-> IF r.invoke
                                               THEN TokenView(cancelled, onCancelledDeferred)
                                               ELSE NotObserved])
         /\ onCancelledCallbacks' = r.callbacks
         /\ symbols' = r.symbols
  /\ UNCHANGED <<snapshots, error, completed, onChange, cancelled,
                 onCancelledDeferred, deferreds, waitOptions, calls, nextEvent>>
  /\ UNCHANGED <<consumerVars, deferredVars>>
  /\ UNCHANGED utilVars
  /\ UNCHANGED run
  /\ UNCHANGED appVars

\* that consumer calls the unregistration function it was given
CallUnregister ==
  /\ \E k \in 1..Len(regs) :
       onCancelledCallbacks' = Unregister(onCancelledCallbacks, regs[k].unregister)
  /\ UNCHANGED <<snapshots, error, completed, onChange, cancelled,
                 onCancelledDeferred, deferreds, symbols, waitOptions, calls, regs, nextEvent>>
  /\ UNCHANGED <<consumerVars, deferredVars>>
  /\ UNCHANGED utilVars
  /\ UNCHANGED run
  /\ UNCHANGED appVars

Next ==
  \/ WaitForSnapshot
  \/ Resume
  \/ ObserverNext
  \/ ObserverError
  \/ ObserverComplete
  \/ Clear
  \/ Cancel
  \/ OnCancelled
  \/ CallUnregister

\* the options runTheTest passes to waitForSnapshot
RunOptions == [hasPendingWrites |-> {FALSE}, fromCache |-> {FALSE}]

\* every operation of the listener, the token and its source, interleaved
\* freely, with the caller's options as in runTheTest
InitRun == Init /\ waitOptions = RunOptions
Spec == InitRun /\ [][Next]_vars

\* the listener under every options value, with no other consumer of the token
NextListener ==
  \/ WaitForSnapshot
  \/ Resume
  \/ ObserverNext
  \/ ObserverError
  \/ ObserverComplete
  \/ Clear
  \/ Cancel
SpecListener == Init /\ [][NextListener]_vars

\* pushes and waits only: no error, no completion, no clear
NextFifo ==
  \/ WaitForSnapshot
  \/ Resume
  \/ ObserverNext
  \/ Cancel
SpecFifo == Init /\ [][NextFifo]_vars

\* pushes and waits with the options of runTheTest and no cancellation; the event loop runs the
\* continuation of an await once the awaited promise has settled
NextWake ==
  \/ WaitForSnapshot
  \/ Resume
  \/ ObserverNext
SpecWake == InitRun /\ [][NextWake]_vars /\ WF_vars(Resume)

\* the same with cancellation: the wait of runTheTest, the pushes and cancel()
SpecCancel == InitRun /\ [][NextFifo]_vars /\ WF_vars(Resume)

\* ------------------------------------------- other consumers of the token
\* the messages a consumer passes to registerDeferred
Messages == {NoMessage, {"stop"}, {""}}

\* what a consumer resolves its Deferred with
Done == "done"

\* a consumer makes a Deferred it will register with the token
ConsumerNewDeferred ==
  /\ Len(handles) < MaxHandles
  /\ deferreds' = Append(deferreds, NewDeferred)
  /\ handles' = Append(handles, [deferred |-> Len(deferreds) + 1,
                                 registered |-> FALSE,
                                 unregister |-> 0,
                                 message |-> NoMessage])
  /\ UNCHANGED <<listenerVars, cancelled, onCancelledCallbacks,
                 onCancelledDeferred, symbols, lastCheck, deferredVars>>
  /\ UNCHANGED utilVars
  /\ UNCHANGED run
  /\ UNCHANGED appVars

\* the consumer calls token.registerDeferred(deferred, message)
ConsumerRegisterDeferred ==
  /\ \E h \in 1..Len(handles), message \in Messages :
       /\ ~handles[h].registered
       /\ LET d == handles[h].deferred
              reg == TokenRegisterDeferred(cancelled, onCancelledCallbacks,
                                           symbols, d, message)
          IN  /\ deferreds' =
                   IF reg.invoke
                   THEN InvokeCallback(RejectCallback(d, message),
                          [deferreds |-> deferreds, regs |-> regs]).deferreds
                   ELSE deferreds
              /\ onCancelledCallbacks' = reg.callbacks
              /\ symbols' = reg.symbols
              /\ handles' = [handles EXCEPT ![h] =
                               [deferred |-> d, registered |-> TRUE,
                                unregister |-> reg.unregister,
                                message |-> message]]
  /\ UNCHANGED <<listenerVars, cancelled, onCancelledDeferred, lastCheck,
                 deferredVars>>
  /\ UNCHANGED utilVars
  /\ UNCHANGED run
  /\ UNCHANGED appVars

\* the consumer's own work finishes: deferred.resolve(result)
ConsumerResolve ==
  /\ \E h \in 1..Len(handles) :
       deferreds' = [deferreds EXCEPT ![handles[h].deferred] =
                       DeferredResolve(@, Done)]
  /\ UNCHANGED <<listenerVars, cancelled, onCancelledCallbacks,
                 onCancelledDeferred, symbols, consumerVars, deferredVars>>
  /\ UNCHANGED utilVars
  /\ UNCHANGED run
  /\ UNCHANGED appVars

\* the consumer calls the function registerDeferred returned
ConsumerUnregister ==
  /\ \E h \in 1..Len(handles) :
       /\ handles[h].registered
       /\ onCancelledCallbacks' =
            Unregister(onCancelledCallbacks, handles[h].unregister)
  /\ UNCHANGED <<listenerVars, cancelled, onCancelledDeferred, deferreds,
                 symbols, consumerVars, deferredVars>>
  /\ UNCHANGED utilVars
  /\ UNCHANGED run
  /\ UNCHANGED appVars

\* token.throwIfCancelled()
ThrowIfCancelled ==
  /\ lastCheck' = TokenThrowIfCancelled(cancelled)
  /\ UNCHANGED <<listenerVars, cancelled, onCancelledCallbacks,
                 onCancelledDeferred, deferreds, symbols, handles, deferredVars>>
  /\ UNCHANGED utilVars
  /\ UNCHANGED run
  /\ UNCHANGED appVars

\* the token, its source and the consumers that register Deferreds with it
NextToken ==
  \/ ConsumerNewDeferred
  \/ ConsumerRegisterDeferred
  \/ ConsumerResolve
  \/ ConsumerUnregister
  \/ Cancel
SpecToken == InitRun /\ [][NextToken]_vars

\* runTheTest: the wait for a server snapshot, then the check of the token
NextCheck ==
  \/ WaitForSnapshot
  \/ Resume
  \/ ObserverNext
  \/ Cancel
  \/ ThrowIfCancelled
SpecCheck == InitRun /\ [][NextCheck]_vars

\* ------------------------------------------------- a Deferred on its own
\* the results and errors a Deferred<T> is settled with
DeferredResults == {"a", "b"}

\* deferred.resolve(result)
Resolve ==
  /\ Len(dfdOps) < MaxOps
  /\ \E result \in DeferredResults :
       /\ dfd' = DeferredResolve(dfd, result)
       /\ dfdOps' = Append(dfdOps, [op |-> "resolve", arg |-> result])
  /\ UNCHANGED <<listenerVars, cancelled, onCancelledCallbacks,
                 onCancelledDeferred, deferreds, symbols, consumerVars, dfdSeen>>
  /\ UNCHANGED utilVars
  /\ UNCHANGED run
  /\ UNCHANGED appVars

\* deferred.reject(error)
Reject ==
  /\ Len(dfdOps) < MaxOps
  /\ \E err \in FirestoreErrors :
       /\ dfd' = DeferredReject(dfd, err)
       /\ dfdOps' = Append(dfdOps, [op |-> "reject", arg |-> err])
  /\ UNCHANGED <<listenerVars, cancelled, onCancelledCallbacks,
                 onCancelledDeferred, deferreds, symbols, consumerVars, dfdSeen>>
  /\ UNCHANGED utilVars
  /\ UNCHANGED run
  /\ UNCHANGED appVars

\* deferred.promise.then(...): a reaction is attached and has received nothing yet
PromiseThen ==
  /\ Len(dfdSeen) < MaxObservers
  /\ dfdSeen' = Append(dfdSeen, NewDeferred)
  /\ UNCHANGED <<listenerVars, cancelled, onCancelledCallbacks,
                 onCancelledDeferred, deferreds, symbols, consumerVars, dfd, dfdOps>>
  /\ UNCHANGED utilVars
  /\ UNCHANGED run
  /\ UNCHANGED appVars

\* the event loop runs a reaction of the settled promise with its outcome
PromiseReaction ==
  /\ dfd.state # "pending"
  /\ \E o \in 1..Len(dfdSeen) :
       /\ dfdSeen[o].state = "pending"
       /\ dfdSeen' = [dfdSeen EXCEPT ![o] = dfd]
  /\ UNCHANGED <<listenerVars, cancelled, onCancelledCallbacks,
                 onCancelledDeferred, deferreds, symbols, consumerVars, dfd, dfdOps>>
  /\ UNCHANGED utilVars
  /\ UNCHANGED run
  /\ UNCHANGED appVars

NextDeferred ==
  \/ Resolve
  \/ Reject
  \/ PromiseThen
  \/ PromiseReaction
SpecDeferred == InitRun /\ [][NextDeferred]_vars

\* ------------------------------------------------ the platform module
\* a caller calls setPlatform(platform)
CallSetPlatform ==
  /\ Len(platformCalls) < MaxPlatformCalls
  /\ \E platform \in Platforms :
       LET r == SetPlatform(gPlatform, platform)
       IN  /\ gPlatform' = r.gPlatform
           /\ platformCalls' = Append(platformCalls,
                [fn |-> "setPlatform", arg |-> platform, kind |-> r.kind,
                 error |-> r.error, value |-> PlatformResult(NoPlatform, "setPlatform")])
  /\ UNCHANGED <<listenerVars, cancelled, onCancelledCallbacks,
                 onCancelledDeferred, deferreds, symbols, consumerVars,
                 deferredVars, randomCall>>
  /\ UNCHANGED run
  /\ UNCHANGED appVars

\* a caller calls one of the functions that delegate to the platform
CallPlatformFunction ==
  /\ Len(platformCalls) < MaxPlatformCalls
  /\ \E fn \in PlatformFunctions :
       LET r == PlatformCall(gPlatform, fn)
       IN  platformCalls' = Append(platformCalls,
             [fn |-> fn, arg |-> NoPlatform, kind |-> r.kind,
              error |-> r.error, value |-> r.value])
  /\ UNCHANGED <<listenerVars, cancelled, onCancelledCallbacks,
                 onCancelledDeferred, deferreds, symbols, consumerVars,
                 deferredVars, gPlatform, randomCall>>
  /\ UNCHANGED run
  /\ UNCHANGED appVars

NextPlatform ==
  \/ CallSetPlatform
  \/ CallPlatformFunction
SpecPlatform == InitRun /\ [][NextPlatform]_vars

\* ------------------------------------------------------------- Random
\* new Random(seed).randomId(length)
CallRandomId ==
  /\ \E seed \in Seeds, length \in Lengths :
       LET r == RandomId(seed, 0, length)
       IN  randomCall' = [fn |-> "randomId", seed |-> seed, count |-> 0,
                          length |-> length, kind |-> r.kind,
                          error |-> r.error, value |-> r.value]
  /\ UNCHANGED <<listenerVars, cancelled, onCancelledCallbacks,
                 onCancelledDeferred, deferreds, symbols, consumerVars,
                 deferredVars, gPlatform, platformCalls>>
  /\ UNCHANGED run
  /\ UNCHANGED appVars

\* new Random(seed).randomIds(count, length)
CallRandomIds ==
  /\ \E seed \in Seeds, count \in Counts, length \in Lengths :
       LET r == RandomIds(seed, count, length)
       IN  randomCall' = [fn |-> "randomIds", seed |-> seed, count |-> count,
                          length |-> length, kind |-> r.kind,
                          error |-> r.error, value |-> r.value]
  /\ UNCHANGED <<listenerVars, cancelled, onCancelledCallbacks,
                 onCancelledDeferred, deferreds, symbols, consumerVars,
                 deferredVars, gPlatform, platformCalls>>
  /\ UNCHANGED run
  /\ UNCHANGED appVars

NextRandom ==
  \/ CallRandomId
  \/ CallRandomIds
SpecRandom == InitRun /\ [][NextRandom]_vars

\* ---------------------------------------------------------- runTheTest
\* variant: the token is not checked after the snapshot was obtained
RunAfterWait_NoCheck(waited, isCancelled) ==
  IF waited.kind = "threw"
  THEN [pc |-> "done", kind |-> "threw", error |-> waited.error]
  ELSE [pc |-> "done", kind |-> "returned", error |-> ""]

\* runTheTest after `await snapshotListener.waitForSnapshot(waitOptions)`:
\* a rejection propagates; otherwise throwIfCancelled() decides
RunAfterWait(waited, isCancelled) ==
  IF waited.kind = "threw"
  THEN [pc |-> "done", kind |-> "threw", error |-> waited.error]
  ELSE LET check == TokenThrowIfCancelled(isCancelled)
       IN  IF check.kind = "threw"
           THEN [pc |-> "done", kind |-> "threw", error |-> check.error]
           ELSE [pc |-> "done", kind |-> "returned", error |-> ""]

\* getCountFromServer rejects and runTheTest fails with its error
RunCountFails ==
  /\ run.pc = "counting"
  /\ \E e \in FirestoreErrors :
       run' = [pc |-> "done", kind |-> "threw", error |-> e]
  /\ UNCHANGED <<listenerVars, cancelled, onCancelledCallbacks,
                 onCancelledDeferred, deferreds, symbols, consumerVars,
                 deferredVars, utilVars, appVars>>

\* getCountFromServer resolves: new SnapshotListener, onSnapshot,
\* onCancelled(unsubscribe) and waitForSnapshot up to its await, in one
\* synchronous segment
RunSubscribe ==
  /\ run.pc = "counting"
  /\ LET reg == TokenOnCancelled(cancelled, onCancelledCallbacks, symbols,
                  [id |-> 0, kind |-> "user", target |-> 1, message |-> ""])
         r == WaitEntry(waitOptions,
                [ListenerState EXCEPT !.callbacks = reg.callbacks,
                                      !.symbols = reg.symbols])
     IN  /\ regs' = <<[unregister |-> reg.unregister,
                       invoked |-> IF reg.invoke THEN 1 ELSE 0,
                       observed |-> IF reg.invoke
                                    THEN TokenView(cancelled, onCancelledDeferred)
                                    ELSE NotObserved]>>
         /\ Install(r)
         /\ calls' = <<CallRecord(r)>>
  /\ run' = [run EXCEPT !.pc = "waiting"]
  /\ UNCHANGED <<error, completed, cancelled, onCancelledDeferred, waitOptions,
                 nextEvent, consumerVars, deferredVars, utilVars, appVars>>

\* the snapshot source is subscribed: onSnapshot was called and the
\* unsubscribe function it returned has not been
Subscribed == Len(regs) = 1 /\ regs[1].invoked = 0

SourceNext == Subscribed /\ ObserverNext
SourceError == Subscribed /\ ObserverError
SourceComplete == Subscribed /\ ObserverComplete

\* the continuation of runTheTest once the promise of waitForSnapshot settled
RunContinue ==
  /\ run.pc = "waiting"
  /\ calls[1].pc = "done"
  /\ run' = RunAfterWait(calls[1].result, cancelled)
  /\ UNCHANGED <<listenerVars, cancelled, onCancelledCallbacks,
                 onCancelledDeferred, deferreds, symbols, consumerVars,
                 deferredVars, utilVars, appVars>>

\* runTheTest with its snapshot source and the token source
NextRun ==
  \/ RunCountFails
  \/ RunSubscribe
  \/ SourceNext
  \/ SourceError
  \/ SourceComplete
  \/ Resume
  \/ RunContinue
  \/ Cancel
SpecRun == InitRun /\ [][NextRun]_vars

\* ------------------------------------------------------- firestore_helper
\* the settings the calls are made with
SettingsHosts == {"prod", "emulator", "nightly"}
ProjectIds == {"p", "REPLACE_WITH_YOUR_PROJECT_ID"}
ApiKeys == {"k", "k%1"}
InstanceIds == {NoInstanceId, {1}}

\* a caller calls getFirestore(settings, instanceId)
CallGetFirestore ==
  /\ Len(firestore.calls) < MaxFirestoreCalls
  /\ \E host \in SettingsHosts, projectId \in ProjectIds, apiKey \in ApiKeys,
        instanceId \in InstanceIds :
       LET settings == [host |-> host, projectId |-> projectId, apiKey |-> apiKey]
           r == GetOrCreateFirestore(firestore, gPlatform, settings, instanceId)
       IN  firestore' =
             [r.firestore EXCEPT !.calls = Append(@,
                [key |-> FirebaseObjectCacheKey(host, projectId, apiKey, instanceId),
                 kind |-> r.kind, error |-> r.error, info |-> r.info])]
  /\ UNCHANGED <<listenerVars, cancelled, onCancelledCallbacks,
                 onCancelledDeferred, deferreds, symbols, consumerVars,
                 deferredVars, utilVars, run, node, batch>>

\* the application installs its platform, once
InstallPlatform ==
  /\ gPlatform = NoPlatform
  /\ CallSetPlatform
  /\ gPlatform' = NodePlatformImpl

NextFirestore ==
  \/ InstallPlatform
  \/ CallGetFirestore
SpecFirestore == InitRun /\ [][NextFirestore]_vars

\* ------------------------------------------------------------ node/index.ts
\* the settings go() gets from the command line
GoHosts == {"prod", "emulator"}
GoApiKeys == {"k"}

\* what terminate(db) can reject with
TerminateErrors == {"T1"}

\* go() from its first statement to `await runTheTest(env.db, env)`
GoStart ==
  /\ node.pc = "start"
  /\ \E host \in GoHosts, projectId \in ProjectIds, apiKey \in GoApiKeys :
       LET set == SetPlatform(gPlatform, NodePlatformImpl)
           settings == [host |-> host, projectId |-> projectId, apiKey |-> apiKey]
           got == GetOrCreateFirestore(firestore, set.gPlatform, settings,
                                       NoInstanceId)
       IN  /\ gPlatform' = set.gPlatform
           /\ platformCalls' = Append(platformCalls,
                [fn |-> "setPlatform", arg |-> NodePlatformImpl, kind |-> set.kind,
                 error |-> set.error,
                 value |-> PlatformResult(NoPlatform, "setPlatform")])
           /\ IF set.kind = "threw"
              THEN /\ node' = [node EXCEPT !.pc = "done", !.escaped = set.error]
                   /\ firestore' = firestore
              ELSE /\ node' = GoEnter(node, got)
                   /\ firestore' =
                        [got.firestore EXCEPT !.calls = Append(@,
                           [key |-> FirebaseObjectCacheKey(host, projectId, apiKey,
                                                           NoInstanceId),
                            kind |-> got.kind, error |-> got.error,
                            info |-> got.info])]
  /\ UNCHANGED <<listenerVars, cancelled, onCancelledCallbacks,
                 onCancelledDeferred, deferreds, symbols, consumerVars,
                 deferredVars, randomCall, run, batch>>

\* runTheTest was called by go() and go() awaits it
GoRunning == node.pc = "running"

GoRunCountFails == GoRunning /\ RunCountFails
GoRunSubscribe == GoRunning /\ RunSubscribe
GoSourceNext == GoRunning /\ SourceNext
GoSourceError == GoRunning /\ SourceError
GoSourceComplete == GoRunning /\ SourceComplete
GoResume == GoRunning /\ Resume
GoRunContinue == GoRunning /\ RunContinue

\* the process receives SIGINT, SIGTERM or SIGQUIT while the handler that
\* death() installed is in place
DeathSignal == node.death = "installed" /\ Cancel

\* the promise of runTheTest has settled: the inner finally block runs
GoAfterRun ==
  /\ node.pc = "running"
  /\ run.pc = "done"
  /\ node' = GoTerminate(node)
  /\ UNCHANGED <<listenerVars, cancelled, onCancelledCallbacks,
                 onCancelledDeferred, deferreds, symbols, consumerVars,
                 deferredVars, utilVars, run, firestore, batch>>

\* the promise of terminate has settled: the rest of go() runs
GoAfterTerminate ==
  /\ node.pc = "terminating"
  /\ \E terminateError \in {""} \cup TerminateErrors :
       node' = GoCatchFinally(node, GoInnerError(terminateError, run))
  /\ UNCHANGED <<listenerVars, cancelled, onCancelledCallbacks,
                 onCancelledDeferred, deferreds, symbols, consumerVars,
                 deferredVars, utilVars, run, firestore, batch>>

NextGo ==
  \/ GoStart
  \/ GoRunCountFails
  \/ GoRunSubscribe
  \/ GoSourceNext
  \/ GoSourceError
  \/ GoSourceComplete
  \/ GoResume
  \/ GoRunContinue
  \/ DeathSignal
  \/ GoAfterRun
  \/ GoAfterTerminate

\* go() with the snapshot source and the death signals; the event loop runs
\* the continuation of an await once the awaited promise has settled
SpecGo ==
  InitRun /\ [][NextGo]_vars /\ WF_vars(GoAfterRun) /\ WF_vars(GoAfterTerminate)

\* --------------------------------------------------- performWritesInBatches
\* the item lists: n items, numbered in rising or in falling order
ItemList(n, falling) == [i \in 1..n |-> IF falling THEN n + 1 - i ELSE i]

\* a caller calls performWritesInBatches(db, items, callback); the call keeps
\* nothing for a later one, so one call is followed
CallPerformWritesInBatches ==
  /\ batch = NoBatch
  /\ \E n \in 0..MaxItems, falling \in BOOLEAN :
       batch' = PerformWritesInBatches(ItemList(n, falling))
  /\ UNCHANGED <<listenerVars, cancelled, onCancelledCallbacks,
                 onCancelledDeferred, deferreds, symbols, consumerVars,
                 deferredVars, utilVars, run, firestore, node>>

NextBatch == CallPerformWritesInBatches
SpecBatch == InitRun /\ [][NextBatch]_vars

\* ------------------------------------------------------ claim vocabulary
Awaiting(c) == calls[c].pc = "awaiting"
SomeoneAwaiting == \E c \in 1..Len(calls) : Awaiting(c)

\* this step is the entry of a new waitForSnapshot call
StartsCall == Len(calls') = Len(calls) + 1

\* call c settles in this step (at its entry or at a continuation)
Settles(c) ==
  /\ c \in 1..Len(calls')
  /\ calls'[c].pc = "done"
  /\ (c > Len(calls) \/ calls[c].pc # "done")

ReturnsIn(c) == Settles(c) /\ calls'[c].result.kind = "returned"

ReturnedCalls == SelectSeq(calls, LAMBDA c : c.result.kind = "returned")

CancelledError == CancellationTokenCancelledError(DefaultCancelMessage)

\* --------------------------------------------------------------------- C1
\* C1: a waitForSnapshot call entered while an earlier call on the listener
\* is still outstanding settles in that same step with the usage error; it
\* is not suspended and it leaves the earlier calls as they were.
C1_SingleWaiter ==
  [][ (StartsCall /\ SomeoneAwaiting) =>
        /\ calls'[Len(calls')].pc = "done"
        /\ calls'[Len(calls')].result = Threw(UsageError)
        /\ \A c \in 1..Len(calls) : calls'[c] = calls[c] ]_vars

C1_Witness ==
  \E i, j \in 1..Len(calls) :
    /\ i < j
    /\ Awaiting(i)
    /\ calls[j].result = Threw(UsageError)

\* --------------------------------------------------------------------- C2
\* C2: with no options, no error, no completion and no clear, the calls that
\* return a snapshot return the pushed snapshots 1, 2, 3, ... in that order,
\* one per call, and the buffer holds exactly the pushed snapshots not yet
\* returned, in push order.
C2_FifoDelivery ==
  waitOptions = NoOptions =>
    LET k == Len(ReturnedCalls)
    IN  /\ \A i \in 1..k : ReturnedCalls[i].result.snapshot.id = i
        /\ Len(snapshots) = nextEvent - k
        /\ \A i \in 1..Len(snapshots) : snapshots[i].id = k + i

C2_Witness ==
  /\ waitOptions = NoOptions
  /\ Len(calls) = 2
  /\ calls[1].result.kind = "returned" /\ calls[1].result.snapshot.id = 1
  /\ calls[2].result.kind = "returned" /\ calls[2].result.snapshot.id = 2
  /\ nextEvent = 3

\* --------------------------------------------------------------------- C3
Agrees(desired, actual) == desired = {} \/ desired = {actual}

C3_Inv ==
  /\ \A c \in 1..Len(calls) :
       calls[c].result.kind = "returned" =>
         /\ Agrees(waitOptions.hasPendingWrites, calls[c].result.snapshot.hasPendingWrites)
         /\ Agrees(waitOptions.fromCache, calls[c].result.snapshot.fromCache)
  /\ \A i, j \in 1..Len(ReturnedCalls) :
       i < j => ReturnedCalls[i].result.snapshot.id < ReturnedCalls[j].result.snapshot.id
  /\ \A c \in 1..Len(calls), i \in 1..Len(snapshots) :
       calls[c].result.kind = "returned" => calls[c].result.snapshot.id < snapshots[i].id

C3_Step ==
  \A c \in 1..Len(calls') :
    ReturnsIn(c) =>
      \E k \in 1..Len(snapshots) :
        /\ snapshots[k] = calls'[c].result.snapshot
        /\ \A i \in 1..k, j \in 1..Len(snapshots') : snapshots[i] # snapshots'[j]

\* C3: a returned snapshot agrees with every flag the options specify; the
\* snapshots that were ahead of it in the buffer are gone from the buffer
\* when the call returns, and no later call returns them (returned ids only
\* grow, and everything still buffered is newer than everything returned).
C3_PredicateFiltering == []C3_Inv /\ [][C3_Step]_vars

C3_Witness ==
  /\ waitOptions.hasPendingWrites # {} /\ waitOptions.fromCache # {}
  /\ Len(calls) = 2
  /\ calls[1].result.kind = "returned" /\ calls[1].result.snapshot.id = 2
  /\ calls[2].pc = "awaiting"
  /\ nextEvent = 3

\* --------------------------------------------------------------------- C4
PendingOnly == [hasPendingWrites |-> {FALSE}, fromCache |-> {}]
LegalEntry == StartsCall /\ onChange = 0 /\ error = NoError /\ ~completed

C4_Step ==
  /\ \A c \in 1..Len(calls') :
       ReturnsIn(c) =>
         \E k \in 1..Len(snapshots) :
           /\ snapshots[k] = calls'[c].result.snapshot
           /\ snapshots' = SubSeq(snapshots, k + 1, Len(snapshots))
  /\ ( /\ LegalEntry /\ waitOptions = PendingOnly
       /\ Len(snapshots) = 3
       /\ ~snapshots[1].hasPendingWrites
       /\ snapshots[2].hasPendingWrites
       /\ ~snapshots[3].hasPendingWrites )
     => /\ calls'[Len(calls')].result = Returned(snapshots[1])
        /\ snapshots' = <<snapshots[2], snapshots[3]>>
  /\ ( /\ LegalEntry /\ waitOptions = PendingOnly
       /\ Len(snapshots) = 2
       /\ snapshots[1].hasPendingWrites
       /\ ~snapshots[2].hasPendingWrites )
     => /\ calls'[Len(calls')].result = Returned(snapshots[2])
        /\ snapshots' = <<>>

\* C4: when a call returns a buffered snapshot, the buffer afterwards is
\* exactly what was behind that snapshot, in the same order.  With a, b, c
\* buffered (pending false, true, false) a call with {hasPendingWrites:
\* false} returns a and leaves b, c; with b, c buffered it returns c.
C4_DiscardBoundary == [][C4_Step]_vars

C4_Witness ==
  /\ waitOptions = PendingOnly
  /\ Len(calls) = 1
  /\ calls[1].result.kind = "returned"
  /\ calls[1].result.snapshot.id = 1 /\ ~calls[1].result.snapshot.hasPendingWrites
  /\ Len(snapshots) = 2
  /\ snapshots[1].id = 2 /\ snapshots[1].hasPendingWrites
  /\ snapshots[2].id = 3 /\ ~snapshots[2].hasPendingWrites

\* --------------------------------------------------------------------- C5
C5_Step ==
  /\ (~cancelled /\ cancelled') =>
       \A c \in 1..Len(calls) :
         (Awaiting(c) /\ deferreds[calls[c].deferred].state = "pending") =>
           deferreds'[calls[c].deferred] = [state |-> "rejected", result |-> "", error |-> CancelledError]
  /\ \A c \in 1..Len(calls) :
       (Awaiting(c) /\ deferreds[calls[c].deferred].state = "rejected" /\ calls'[c] # calls[c]) =>
         /\ calls'[c].pc = "done"
         /\ calls'[c].result = Threw(CancelledError)
         /\ onChange' = 0
         /\ \A i \in 1..Len(onCancelledCallbacks') :
              onCancelledCallbacks'[i].kind = "reject" =>
                onCancelledCallbacks'[i].target # calls[c].deferred
  /\ (StartsCall /\ ~SomeoneAwaiting) =>
       calls'[Len(calls')].result # Threw(UsageError)

\* C5: cancel() rejects the Deferred of a call suspended on a pending
\* Deferred with CancellationTokenCancelledError; the continuation of a call
\* whose Deferred is rejected fails with that error, clears onChange and
\* removes its token registration; and a call entered while no call is
\* outstanding never gets the usage error.
C5_CancelSuspendedWait == [][C5_Step]_vars

C5_Witness ==
  /\ Len(calls) = 2
  /\ calls[1].result = Threw(CancelledError)
  /\ regs = <<>> /\ symbols = 1
  /\ calls[2].pc = "done"
  /\ calls[2].result # Threw(UsageError)

\* --------------------------------------------------------------------- C6
\* C6: cancel() is idempotent, so over any sequence of cancel() calls no
\* callback registered with the token is invoked more than once.
C6_CancelIdempotent ==
  \A k \in 1..Len(regs) : regs[k].invoked <= 1

\* --------------------------------------------------------------------- C7
Registered(k) ==
  \E i \in 1..Len(onCancelledCallbacks) :
    onCancelledCallbacks[i].kind = "user" /\ onCancelledCallbacks[i].target = k

C7_Step ==
  (~cancelled /\ cancelled') =>
    /\ \A k \in 1..Len(regs) :
         Registered(k) => regs[k].invoked = 0 /\ regs'[k].invoked = 1
    /\ \A i \in 1..Len(onCancelledCallbacks) :
         onCancelledCallbacks[i].kind = "reject" =>
           LET d == onCancelledCallbacks[i].target
           IN  /\ deferreds'[d].state # "pending"
               /\ deferreds[d].state = "pending" =>
                    deferreds'[d] = [state |-> "rejected", result |-> "", error |-> CancelledError]

\* C7: the first cancel() invokes every callback that is registered at that
\* moment exactly once within that call: a consumer callback goes from zero
\* invocations to one, and a Deferred registered by registerDeferred is
\* settled when the call returns (rejected if it was pending).
C7_BroadcastOnCancel == [][C7_Step]_vars

C7_Witness ==
  /\ cancelled
  /\ Len(onCancelledCallbacks) = 2
  /\ Len(regs) = 1 /\ regs[1].invoked = 1 /\ Registered(1)
  /\ \E c \in 1..Len(calls) :
       /\ Awaiting(c)
       /\ deferreds[calls[c].deferred].state = "rejected"
       /\ calls[c].unregister # 0

\* --------------------------------------------------------------------- C8
C8_Step ==
  /\ (cancelled /\ Len(regs') = Len(regs) + 1) =>
       /\ regs'[Len(regs')] = [unregister |-> 0, invoked |-> 1,
                                observed |-> [cancelled |-> TRUE, promise |-> "resolved"]]
       /\ onCancelledCallbacks' = onCancelledCallbacks
  /\ \A k \in 1..Len(regs) :
       regs[k].unregister = 0 =>
         /\ regs'[k] = regs[k]
         /\ ~Registered(k)
         /\ Unregister(onCancelledCallbacks, regs[k].unregister) = onCancelledCallbacks

\* C8: onCancelled on a cancelled token invokes the callback once within the
\* call and does not store it; no later step invokes it again, and the
\* unregistration function it returned removes nothing.
C8_RegistrationAfterCancel == [][C8_Step]_vars

C8_Witness ==
  /\ cancelled
  /\ Len(regs) = 1
  /\ regs[1] = [unregister |-> 0, invoked |-> 1,
                                observed |-> [cancelled |-> TRUE, promise |-> "resolved"]]
  /\ \E c \in 1..Len(calls) : calls[c].result = Threw(CancelledError)

\* --------------------------------------------------------------------- C9
\* C9: the cancelled flag starts false, never goes back to false, and
\* changes only in a step of CancellationTokenSource.cancel.
C9_CancelledOneWay ==
  /\ ~cancelled
  /\ [][ /\ cancelled => cancelled'
         /\ cancelled' # cancelled => Cancel ]_vars

C9_Witness ==
  /\ cancelled
  /\ \E k \in 1..Len(regs) : regs[k].invoked = 2
  /\ Len(calls) = 2
  /\ calls[1].result = Threw(CancelledError)
  /\ calls[2].result = Threw(CancelledError)
  /\ error # NoError /\ completed

\* -------------------------------------------------------------------- C10
C10_Step ==
  /\ error # NoError => error' # NoError
  /\ (StartsCall /\ error # NoError /\ ~SomeoneAwaiting) =>
       /\ calls'[Len(calls')].pc = "done"
       /\ calls'[Len(calls')].result = Threw(error)
  /\ \A c \in 1..Len(calls') :
       (error # NoError /\ (c > Len(calls) \/ calls'[c] # calls[c])) =>
         /\ calls'[c].pc = "done"
         /\ calls'[c].result.kind = "threw"

\* C10: a recorded error is never cleared; a waitForSnapshot call entered
\* while an error is recorded (and no earlier call is outstanding, which is
\* the usage error of C1) fails at once with the recorded error, whatever
\* was pushed, completed or cleared before; and while an error is recorded
\* no call returns a snapshot and no call suspends.
C10_TerminalErrorPermanent == [][C10_Step]_vars

C10_Witness ==
  /\ error = "E1"
  /\ completed
  /\ snapshots # <<>>
  /\ Len(calls) = 2
  /\ calls[1].result = Threw("E1")
  /\ calls[2].result = Threw("E1")

\* -------------------------------------------------------------------- C11
\* C11: observer.error records the first error permanently: once an error
\* is recorded, no later step (a second error call included) replaces it.
C11_FirstErrorWins ==
  [][error # NoError => error' = error]_vars

\* -------------------------------------------------------------------- C12
\* the buffer holds a snapshot that agrees with the options
HasMatch ==
  \E i \in 1..Len(snapshots) :
    /\ Agrees(waitOptions.hasPendingWrites, snapshots[i].hasPendingWrites)
    /\ Agrees(waitOptions.fromCache, snapshots[i].fromCache)

\* call c runs a pass of the loop in this step: it is entered with no call
\* outstanding, or it is woken (its Deferred resolved) and continues
PassRuns(c) ==
  \/ StartsCall /\ c = Len(calls') /\ ~SomeoneAwaiting
  \/ /\ c \in 1..Len(calls)
     /\ Awaiting(c)
     /\ deferreds[calls[c].deferred].state = "resolved"
     /\ calls'[c] # calls[c]

\* C12: a pass of waitForSnapshot that finds a matching snapshot buffered
\* returns it even when an error is recorded: the buffer is drained for a
\* match before the error flag is examined.
C12_BufferBeforeError ==
  [][ \A c \in 1..Len(calls') :
        (PassRuns(c) /\ error # NoError /\ HasMatch) =>
          calls'[c].result.kind = "returned" ]_vars

\* -------------------------------------------------------------------- C13
\* C13: after complete() with no error recorded, a pass that finds a
\* matching snapshot buffered returns it; 'listener is completed' is raised
\* only when the buffer holds no match.
C13_BufferedSurviveCompletion ==
  [][ \A c \in 1..Len(calls') :
        (PassRuns(c) /\ completed /\ error = NoError /\ HasMatch) =>
          calls'[c].result.kind = "returned" ]_vars

\* -------------------------------------------------------------------- C14
C14_Step ==
  /\ completed => completed'
  /\ \A c \in 1..Len(calls') :
       (PassRuns(c) /\ completed /\ snapshots = <<>>) =>
         /\ calls'[c].pc = "done"
         /\ calls'[c].result =
              IF error # NoError THEN Threw(error) ELSE Threw(CompletedError)

\* C14: the completed flag is never reset, and a pass that runs with the
\* flag set and an empty buffer fails without suspending: with the recorded
\* error when there is one, with 'listener is completed' otherwise.
C14_CompletionPermanent == [][C14_Step]_vars

C14_Witness ==
  /\ completed
  /\ snapshots = <<>>
  /\ Len(calls) = 2
  /\ calls[1].result = Threw(CompletedError)
  /\ calls[2].result = Threw("E1")

\* -------------------------------------------------------------------- C15
\* the buffer changes in this step without a call moving and without a push
ClearStep == snapshots' # snapshots /\ calls' = calls /\ nextEvent' = nextEvent

C15_Step ==
  /\ ClearStep =>
       /\ snapshots' = <<>>
       /\ UNCHANGED <<error, completed, onChange, cancelled,
                      onCancelledCallbacks, onCancelledDeferred, deferreds>>
  /\ \A c \in 1..Len(calls') :
       ReturnsIn(c) =>
         \E i \in 1..Len(snapshots) : snapshots[i] = calls'[c].result.snapshot

\* C15: clear() leaves the buffer empty and leaves the error, the completed
\* flag, the waiter slot, the token and the Deferreds as they were; a call
\* only ever returns a snapshot that is in the buffer when it returns, so
\* nothing that was cleared is returned later.
C15_ClearOnlyBuffer == [][C15_Step]_vars

C15_Witness ==
  /\ waitOptions = NoOptions
  /\ nextEvent = 2
  /\ snapshots = <<>>
  /\ Len(calls) = 1
  /\ Awaiting(1)
  /\ deferreds[calls[1].deferred].state = "pending"

\* -------------------------------------------------------------------- C16
RejectEntries ==
  {i \in 1..Len(onCancelledCallbacks) : onCancelledCallbacks[i].kind = "reject"}

C16_Inv ==
  /\ Cardinality(RejectEntries) <= 1
  /\ ~SomeoneAwaiting => onChange = 0 /\ RejectEntries = {}

C16_Step ==
  \A c \in 1..Len(calls') :
    (Settles(c) /\ calls'[c].result # Threw(UsageError)) =>
      /\ onChange' = 0
      /\ \A i \in 1..Len(onCancelledCallbacks') :
           onCancelledCallbacks'[i].kind # "reject"

\* C16: when a call settles by returning, by the terminal error or
\* completion, or by cancellation, onChange is null and the token holds no
\* callback of the listener; the token never holds more than one, and none
\* while no call is outstanding.
C16_TeardownOnExit == []C16_Inv /\ [][C16_Step]_vars

C16_Witness ==
  /\ Len(calls) = 2
  /\ calls[1].result.kind = "returned"
  /\ Len(deferreds) = 2
  /\ deferreds[1].state = "resolved"
  /\ deferreds[2].state = "rejected"
  /\ calls[2].result = Threw(CancelledError)
  /\ symbols = 2
  /\ onChange = 0
  /\ RejectEntries = {}

\* -------------------------------------------------------------------- C17
\* the token's map changes in this step, and neither a wait nor a new
\* registration made the change
UnregisterStep ==
  /\ onCancelledCallbacks' # onCancelledCallbacks
  /\ calls' = calls
  /\ Len(regs') = Len(regs)

C17_Step ==
  /\ \A k \in 1..Len(regs) : ~Registered(k) => regs'[k] = regs[k]
  /\ UnregisterStep =>
       /\ \E k \in 1..Len(regs) :
            /\ Registered(k)
            /\ onCancelledCallbacks' =
                 SelectSeq(onCancelledCallbacks,
                           LAMBDA cb : ~(cb.kind = "user" /\ cb.target = k))
       /\ UNCHANGED <<regs, deferreds, cancelled, onCancelledDeferred,
                      snapshots, error, completed, onChange>>

\* the part of C17 that is about the unregistration call itself: a consumer
\* callback that is not in the token's map is invoked by no step, cancel()
\* included; an unregistration removes exactly the one entry it was returned
\* for, whether or not that callback has fired, and changes no counter, no
\* Deferred, no flag and no other registration.
C17_Unregistration == [][C17_Step]_vars

\* what a cancel() in this state does to the Deferreds and the consumers'
\* callbacks when the token's map is cbs
CancelOutcome(cbs) ==
  TokenCancel([cancelled |-> cancelled, onCancelledCallbacks |-> cbs,
               onCancelledDeferred |-> onCancelledDeferred],
              [deferreds |-> deferreds, regs |-> regs,
               token |-> TokenView(cancelled, onCancelledDeferred)]).st

\* the unregistration function of a callback that has fired is a no-op to
\* an observer: what the token does next is the same with and without it
C17_AfterFireUnobservable ==
  \A k \in 1..Len(regs) :
    (regs[k].invoked >= 1 /\ Registered(k)) =>
      CancelOutcome(Unregister(onCancelledCallbacks, regs[k].unregister)) =
        CancelOutcome(onCancelledCallbacks)

\* C17: a callback unregistered before cancel() is never invoked by
\* cancel(); calling an unregistration function after its callback has
\* fired, or more than once, changes nothing observable (the token behaves
\* afterwards as it would have without the call) and affects no other
\* registration.
C17_UnregistrationNoOp == []C17_AfterFireUnobservable /\ [][C17_Step]_vars

\* -------------------------------------------------------------------- C18
\* the outcome the first resolve or reject call on dfd asks for
FirstOutcome ==
  IF dfdOps = <<>> THEN [state |-> "pending", result |-> "", error |-> ""]
  ELSE IF dfdOps[1].op = "resolve"
       THEN [state |-> "resolved", result |-> dfdOps[1].arg, error |-> ""]
       ELSE [state |-> "rejected", result |-> "", error |-> dfdOps[1].arg]

\* C18: after any sequence of resolve and reject calls on one Deferred its
\* outcome is the one the first call asked for, whatever the later calls
\* were, and every reaction of the promise that has run received exactly
\* that outcome.
C18_SettlesOnce ==
  /\ dfd = FirstOutcome
  /\ \A o \in 1..Len(dfdSeen) :
       dfdSeen[o].state # "pending" => dfdSeen[o] = FirstOutcome

C18_Witness ==
  /\ Len(dfdOps) = 3
  /\ dfdOps[1].op = "resolve"
  /\ dfdOps[2].op = "resolve"
  /\ dfdOps[2].arg # dfdOps[1].arg
  /\ dfdOps[3].op = "reject"
  /\ dfd.state = "resolved"
  /\ dfd.result = dfdOps[1].arg
  /\ Len(dfdSeen) = 2
  /\ \A o \in 1..2 : dfdSeen[o] = dfd

\* -------------------------------------------------------------------- C19
\* handle h's rejecting callback is in the token's map
HandleRegistered(h) ==
  /\ handles[h].registered
  /\ \E i \in 1..Len(onCancelledCallbacks) :
       onCancelledCallbacks[i].id = handles[h].unregister

\* a Deferred rejected with the cancellation error carrying the message
RejectedWith(message) ==
  [state |-> "rejected", result |-> "",
   error |-> CancellationTokenCancelledError(
               IF message = {} THEN "operation cancelled"
               ELSE CHOOSE m \in message : TRUE)]

\* cancel() rejects the registered Deferreds that are pending, with their
\* message, and leaves every other consumer Deferred as it was
C19_CancelStep ==
  Cancel =>
    \A h \in 1..Len(handles) :
      LET d == handles[h].deferred
      IN  deferreds'[d] =
            IF HandleRegistered(h) /\ deferreds[d].state = "pending"
            THEN RejectedWith(handles[h].message)
            ELSE deferreds[d]

\* registerDeferred on a cancelled token rejects a pending Deferred in the
\* call itself and stores nothing; on a live token it only stores the callback
C19_RegisterStep ==
  \A h \in 1..Len(handles) :
    (~handles[h].registered /\ handles'[h].registered) =>
      LET d == handles[h].deferred
      IN  IF cancelled
          THEN /\ deferreds'[d] =
                    IF deferreds[d].state = "pending"
                    THEN RejectedWith(handles'[h].message)
                    ELSE deferreds[d]
               /\ onCancelledCallbacks' = onCancelledCallbacks
          ELSE /\ deferreds'[d] = deferreds[d]
               /\ Len(onCancelledCallbacks') = Len(onCancelledCallbacks) + 1

\* C19: a Deferred registered with registerDeferred(deferred, message) and
\* pending when the token is cancelled is rejected with the cancellation
\* error carrying message, or 'operation cancelled' when no message was
\* given; a settled one keeps its outcome; one unregistered before the
\* cancellation is not rejected; one registered on a cancelled token is
\* rejected in the registration call.
C19_RegisterDeferred == [][C19_CancelStep /\ C19_RegisterStep]_vars

C19_Witness ==
  /\ cancelled
  /\ Len(handles) = 3
  /\ handles[1].message = {"stop"}
  /\ handles[1].unregister # 0
  /\ deferreds[handles[1].deferred] = RejectedWith({"stop"})
  /\ handles[2].registered
  /\ handles[2].unregister = 0
  /\ deferreds[handles[2].deferred] = RejectedWith({})
  /\ handles[3].unregister # 0
  /\ ~HandleRegistered(3)
  /\ deferreds[handles[3].deferred].state = "pending"

\* -------------------------------------------------------------------- C20
\* C20: a throwIfCancelled call throws the cancellation error with the
\* message 'operation cancelled' when the token's cancelled flag is set and
\* returns normally when it is not, and the call changes nothing of the
\* token, of the Deferreds registered with it, or of the listener.
C20_Step ==
  lastCheck' # lastCheck =>
    /\ lastCheck' =
         IF cancelled
         THEN [kind |-> "threw",
               error |-> "CancellationTokenCancelledError: operation cancelled"]
         ELSE [kind |-> "returned", error |-> ""]
    /\ UNCHANGED <<listenerVars, cancelled, onCancelledCallbacks,
                   onCancelledDeferred, deferreds, symbols>>
C20_ThrowIfCancelled == [][C20_Step]_vars

C20_Witness ==
  /\ lastCheck.kind = "threw"
  /\ cancelled
  /\ \E c \in 1..Len(calls) : calls[c].result.kind = "threw"

\* -------------------------------------------------------------------- C21
\* call c is suspended: it is at its await and nothing has settled its Deferred
Suspended(c) ==
  /\ c \in 1..Len(calls)
  /\ Awaiting(c)
  /\ deferreds[calls[c].deferred].state = "pending"

\* call c was woken by the listener and its continuation has not run yet
Woken(c) ==
  /\ c \in 1..Len(calls)
  /\ Awaiting(c)
  /\ deferreds[calls[c].deferred].state = "resolved"

\* a suspended wait has seen neither an error nor the completion
C21_SuspendedIsClean ==
  \A c \in 1..Len(calls) : Suspended(c) => error = NoError /\ ~completed

C21_Step ==
  \A c \in 1..Len(calls) :
    \* error(E) and complete() wake the suspended wait
    /\ (Suspended(c) /\ (error' # error \/ completed' # completed)) =>
         deferreds'[calls[c].deferred].state = "resolved"
    \* the error delivered to the wait is the one it will fail with
    /\ (Woken(c) /\ error # NoError) => error' = error
    \* the continuation of a wait woken by a terminal signal fails
    /\ (Woken(c) /\ calls'[c] # calls[c] /\ error # NoError) =>
         calls'[c].pc = "done" /\ calls'[c].result = Threw(error)
    /\ (Woken(c) /\ calls'[c] # calls[c] /\ error = NoError /\ completed) =>
         calls'[c].pc = "done" /\ calls'[c].result = Threw(CompletedError)

\* C21: when observer.error(E) is delivered to a suspended waitForSnapshot
\* call, the call is woken and fails with E; when observer.complete() is
\* delivered instead, with no error, it fails with 'listener is completed';
\* the woken call does not suspend again.
C21_TerminalWake == []C21_SuspendedIsClean /\ [][C21_Step]_vars

\* the part of C21 that does not depend on which error is kept
C21_WakeStep ==
  \A c \in 1..Len(calls) :
    /\ (Suspended(c) /\ (error' # error \/ completed' # completed)) =>
         deferreds'[calls[c].deferred].state = "resolved"
    /\ (Woken(c) /\ calls'[c] # calls[c] /\ error # NoError) =>
         calls'[c].pc = "done" /\ calls'[c].result = Threw(error)
    /\ (Woken(c) /\ calls'[c] # calls[c] /\ error = NoError /\ completed) =>
         calls'[c].pc = "done" /\ calls'[c].result = Threw(CompletedError)
C21_WakeOnly == []C21_SuspendedIsClean /\ [][C21_WakeStep]_vars

\* -------------------------------------------------------------------- C22
\* the setPlatform calls made so far
SetPlatformCalls == SelectSeq(platformCalls, LAMBDA c : c.fn = "setPlatform")

\* the platform in force: the argument of the first setPlatform call
C22_Inv ==
  gPlatform = IF SetPlatformCalls = <<>> THEN 0 ELSE SetPlatformCalls[1].arg

C22_Step ==
  Len(platformCalls') = Len(platformCalls) + 1 =>
    LET call == platformCalls'[Len(platformCalls')]
    IN  IF call.fn = "setPlatform"
        THEN IF gPlatform = 0
             THEN call.kind = "returned" /\ gPlatform' = call.arg
             ELSE /\ call.kind = "threw"
                  /\ call.error = "setPlatform() has already been invoked"
                  /\ gPlatform' = gPlatform
        ELSE /\ gPlatform' = gPlatform
             /\ IF gPlatform = 0
                THEN /\ call.kind = "threw"
                     /\ call.error = "setPlatform() has not yet been invoked"
                ELSE /\ call.kind = "returned"
                     /\ call.value = [platform |-> gPlatform, fn |-> call.fn]

\* C22: the first setPlatform call installs its platform; every later call
\* throws and leaves the installed platform in place; base64Encode,
\* calculateHash, log and getCurrentMonotonicTimeMilliseconds throw before
\* the first setPlatform call, and afterwards return what the installed
\* platform's function of the same name returns.
C22_SetPlatformOnce == []C22_Inv /\ [][C22_Step]_vars

C22_Witness ==
  /\ Len(platformCalls) = 4
  /\ platformCalls[1].fn = "log"
  /\ platformCalls[1].kind = "threw"
  /\ platformCalls[2].fn = "setPlatform"
  /\ platformCalls[2].arg = 1
  /\ platformCalls[3].fn = "setPlatform"
  /\ platformCalls[3].arg = 2
  /\ platformCalls[3].kind = "threw"
  /\ platformCalls[4].fn = "base64Encode"
  /\ platformCalls[4].value.platform = 1
  /\ gPlatform = 1

\* -------------------------------------------------------------------- C23
\* the length a call asks for: 20 when the argument is undefined
AskedLength == IF randomCall.length = {} THEN 20 ELSE CHOOSE n \in randomCall.length : TRUE

\* C23: randomIds(count, length) returns exactly count strings, each of the
\* given length (20 when undefined), and throws for a negative count;
\* randomId(length) returns a string of exactly length characters (20 when
\* undefined) and throws for a negative length.
C23_RandomLengths ==
  /\ randomCall.fn = "randomId" =>
       IF AskedLength < 0
       THEN randomCall.kind = "threw"
       ELSE randomCall.kind = "returned" /\ Len(randomCall.value) = AskedLength
  /\ randomCall.fn = "randomIds" =>
       IF randomCall.count < 0
       THEN randomCall.kind = "threw"
       ELSE /\ randomCall.kind = "returned"
            /\ Len(randomCall.value) = randomCall.count
            /\ AskedLength >= 0 =>
                 \A k \in 1..randomCall.count :
                   Len(randomCall.value[k]) = AskedLength

\* what holds of randomIds in the code: every string has 20 characters
C23_AlwaysTwenty ==
  /\ randomCall.fn = "randomId" =>
       IF AskedLength < 0
       THEN randomCall.kind = "threw"
       ELSE randomCall.kind = "returned" /\ Len(randomCall.value) = AskedLength
  /\ randomCall.fn = "randomIds" =>
       IF randomCall.count < 0
       THEN randomCall.kind = "threw"
       ELSE /\ randomCall.kind = "returned"
            /\ Len(randomCall.value) = randomCall.count
            /\ \A k \in 1..randomCall.count : Len(randomCall.value[k]) = 20

\* -------------------------------------------------------------------- C24
\* the first buffered snapshot that matches the options is snapshot id
FirstMatchIs(id) ==
  /\ Drain(snapshots, waitOptions).found
  /\ Drain(snapshots, waitOptions).snapshot.id = id

\* call c has returned snapshot id
ReturnedId(c, id) ==
  /\ c \in 1..Len(calls)
  /\ calls[c].result.kind = "returned"
  /\ calls[c].result.snapshot.id = id

\* C24: with no error, completion, clear or cancellation, a waitForSnapshot
\* call that is at its await while the buffer holds a snapshot matching its
\* options (delivered by observer.next after the call suspended) eventually
\* returns the first such snapshot, given that the continuation of a settled
\* await is eventually run.
C24_WakeLiveness ==
  \A c \in 1..MaxCalls, id \in 1..MaxEvents :
    (c \in 1..Len(calls) /\ Awaiting(c) /\ FirstMatchIs(id)) ~> ReturnedId(c, id)

C24_Witness ==
  /\ Len(calls) >= 1
  /\ calls[1].result.kind = "returned"
  /\ calls[1].result.snapshot.id = 2
  /\ Len(deferreds) = 2
  /\ deferreds[1].state = "resolved"
  /\ deferreds[2].state = "resolved"

\* -------------------------------------------------------------------- C25
\* the continuation of woken call c runs in this step and finds nothing to
\* return and nothing to fail with
WokenInVain(c) ==
  /\ Woken(c)
  /\ calls'[c] # calls[c]
  /\ error = NoError
  /\ ~completed
  /\ ~Drain(snapshots, waitOptions).found

C25_Step ==
  /\ \A c \in 1..Len(calls) :
       WokenInVain(c) =>
         LET d == Len(deferreds) + 1
         IN  /\ calls'[c].pc = "awaiting"
             /\ calls'[c].result = NoResult
             /\ snapshots' = <<>>
             /\ calls'[c].deferred = d
             /\ Len(deferreds') = d
             /\ onChange' = d
             /\ IF cancelled
                THEN /\ deferreds'[d] = [state |-> "rejected", result |-> "",
                                         error |-> CancelledError]
                     /\ RejectEntries' = {}
                ELSE /\ deferreds'[d].state = "pending"
                     /\ calls'[c].unregister # calls[c].unregister
                     /\ \A i \in RejectEntries' :
                          /\ onCancelledCallbacks'[i].id = calls'[c].unregister
                          /\ onCancelledCallbacks'[i].target = d
                     /\ Cardinality(RejectEntries') = 1
  /\ (StartsCall /\ SomeoneAwaiting) =>
       calls'[Len(calls')].result = Threw(UsageError)

\* C25: when the continuation of a woken waitForSnapshot call finds no
\* matching snapshot (and no error or completion), the call drops what was
\* buffered, neither returns nor fails, and awaits a new Deferred that is
\* the listener's wake callback and is registered with the token in place
\* of the old one (rejected at once when the token is already cancelled);
\* a call made while it is outstanding gets the usage error.
C25_Resuspension == [][C25_Step]_vars

C25_Witness ==
  /\ Len(calls) = 2
  /\ Awaiting(1)
  /\ calls[1].deferred = 2
  /\ deferreds[1].state = "resolved"
  /\ deferreds[2].state = "pending"
  /\ onChange = 2
  /\ nextEvent = 1
  /\ snapshots = <<>>
  /\ calls[2].result = Threw(UsageError)

\* -------------------------------------------------------------------- C26
\* every consumer callback that has run saw the flag set and the promise
\* resolved; the promise is never rejected and is resolved exactly when the
\* token is cancelled
C26_Inv ==
  /\ \A k \in 1..Len(regs) :
       regs[k].invoked > 0 =>
         regs[k].observed = [cancelled |-> TRUE, promise |-> "resolved"]
  /\ onCancelledDeferred.state # "rejected"
  /\ onCancelledDeferred.state = "resolved" <=> cancelled

\* only cancel() settles the promise, and it resolves it with undefined
C26_Step ==
  onCancelledDeferred' # onCancelledDeferred =>
    /\ Cancel
    /\ onCancelledDeferred' =
         [state |-> "resolved", result |-> "undefined", error |-> ""]

\* C26: cancel() sets the cancelled flag and resolves the token's promise
\* before it invokes any registered callback, so every callback that runs
\* during cancel() sees cancelled = true and the promise resolved; the
\* promise is never rejected, and no operation but cancel() resolves it.
C26_CancelOrdering == []C26_Inv /\ [][C26_Step]_vars

C26_Witness ==
  /\ cancelled
  /\ Len(regs) = 1
  /\ regs[1].unregister # 0
  /\ regs[1].invoked = 1
  /\ regs[1].observed.cancelled
  /\ onCancelledDeferred.state = "resolved"

\* -------------------------------------------------------------------- C27
\* call c is at its await and the token has rejected its Deferred
RejectedWait(c) ==
  /\ c \in 1..Len(calls)
  /\ Awaiting(c)
  /\ deferreds[calls[c].deferred] =
       [state |-> "rejected", result |-> "", error |-> CancelledError]

C27_Step ==
  \* the call reaches its await with a Deferred that is rejected already
  /\ (LegalEntry /\ cancelled /\ ~Drain(snapshots, waitOptions).found) =>
       /\ calls'[Len(calls')].pc = "awaiting"
       /\ deferreds'[calls'[Len(calls')].deferred] =
            [state |-> "rejected", result |-> "", error |-> CancelledError]
       /\ RejectEntries' = {}
  \* and its continuation throws the rejection and frees the listener
  /\ \A c \in 1..Len(calls) :
       (RejectedWait(c) /\ calls'[c] # calls[c]) =>
         /\ calls'[c].pc = "done"
         /\ calls'[c].result = Threw(CancelledError)
         /\ onChange' = 0

\* C27: a waitForSnapshot call made on a cancelled token, with no matching
\* snapshot buffered, no error and no completion, reaches its await with a
\* Deferred the token has rejected already, and so eventually fails with
\* CancellationTokenCancelledError('operation cancelled'), leaving onChange
\* null and no callback in the token.
C27_WaitOnCancelledToken ==
  /\ [][C27_Step]_vars
  /\ \A c \in 1..MaxCalls :
       RejectedWait(c) ~>
         (c \in 1..Len(calls) /\ calls[c].result = Threw(CancelledError))

C27_Witness ==
  /\ cancelled
  /\ symbols = 0
  /\ Len(calls) = 1
  /\ calls[1].result = Threw(CancelledError)
  /\ Len(deferreds) = 1
  /\ onChange = 0
  /\ onCancelledCallbacks = <<>>

\* -------------------------------------------------------------------- C28
\* runTheTest, past its subscription to the snapshots, settles in this step
RunSettles == run.pc = "waiting" /\ run'.pc = "done"

\* cancel() invokes the unsubscribe function while it is registered, and a
\* registration on a cancelled token invokes it at once
C28_Unsubscribe ==
  /\ (Cancel /\ Registered(1)) => regs'[1].invoked = regs[1].invoked + 1
  /\ (cancelled /\ run.pc = "counting" /\ run'.pc = "waiting") =>
       regs'[1].invoked = 1

\* C28 as stated: runTheTest registers unsubscribe with the token, so
\* cancel() invokes it, and a run that has subscribed and settles once the
\* token is cancelled fails with CancellationTokenCancelledError.
C28_CancelledRunFailsCancelled ==
  [][ /\ C28_Unsubscribe
      /\ (RunSettles /\ cancelled) =>
           run'.kind = "threw" /\ run'.error = CancelledError ]_vars

C28_Step ==
  /\ C28_Unsubscribe
  /\ (RunSettles /\ cancelled) =>
       /\ run'.kind = "threw"
       /\ \/ /\ run'.error = CancelledError
             /\ \/ calls[1].result = Threw(CancelledError)
                \/ calls[1].result.kind = "returned"
          \/ /\ run'.error \in FirestoreErrors \cup {CompletedError}
             /\ calls[1].result = Threw(run'.error)

\* C28 amended: cancel() invokes the registered unsubscribe function, and a
\* run that has subscribed and settles once the token is cancelled never
\* completes normally: it fails with CancellationTokenCancelledError from
\* the wait or from throwIfCancelled(), or with the listener's error or
\* 'listener is completed' when that is what the wait failed with.
C28_CancelledRunFails == [][C28_Step]_vars

C28_Witness ==
  /\ cancelled
  /\ run.pc = "done"
  /\ run.kind = "threw"
  /\ run.error = CancelledError
  /\ calls[1].result.kind = "returned"
  /\ regs[1].unregister # 0
  /\ regs[1].invoked = 1

\* -------------------------------------------------------------------- C29
\* C29: a waitForSnapshot call made on a cancelled token while the buffer
\* holds a matching snapshot, with no error and no completion recorded,
\* returns the first matching snapshot in the same step; it makes no
\* Deferred and asks nothing of the token.
C29_Step ==
  (LegalEntry /\ cancelled /\ Drain(snapshots, waitOptions).found) =>
    /\ calls'[Len(calls')].pc = "done"
    /\ calls'[Len(calls')].result = Returned(Drain(snapshots, waitOptions).snapshot)
    /\ UNCHANGED <<deferreds, onCancelledCallbacks, symbols, cancelled, onChange>>
C29_BufferedMatchBeatsCancel == [][C29_Step]_vars

C29_Witness ==
  /\ cancelled
  /\ symbols = 0
  /\ Len(calls) = 2
  /\ calls[1].result = Threw(CancelledError)
  /\ calls[2].result.kind = "returned"
  /\ Len(deferreds) = 1

\* -------------------------------------------------------------------- C30
\* the continuation of call c, woken before the token was cancelled, runs
WokenThenCancelled(c) ==
  /\ Woken(c)
  /\ cancelled
  /\ calls'[c] # calls[c]
  /\ error = NoError
  /\ ~completed

C30_Step ==
  \A c \in 1..Len(calls) :
    \* cancel() does not change a wake Deferred that is resolved
    /\ (Woken(c) /\ Cancel) =>
         deferreds'[calls[c].deferred] = deferreds[calls[c].deferred]
    \* a match is returned, cancelled token or not
    /\ (WokenThenCancelled(c) /\ Drain(snapshots, waitOptions).found) =>
         /\ calls'[c].pc = "done"
         /\ calls'[c].result = Returned(Drain(snapshots, waitOptions).snapshot)
    \* with no match the new suspension is rejected at once
    /\ (WokenThenCancelled(c) /\ ~Drain(snapshots, waitOptions).found) =>
         /\ calls'[c].pc = "awaiting"
         /\ deferreds'[calls'[c].deferred] =
              [state |-> "rejected", result |-> "", error |-> CancelledError]
    \* and its continuation fails with the cancellation error
    /\ (RejectedWait(c) /\ calls'[c] # calls[c]) =>
         calls'[c].result = Threw(CancelledError)

\* C30: when observer.next has woken a suspended call and cancel() is called
\* before the continuation runs, the wake Deferred stays resolved; the
\* continuation returns the first matching snapshot if there is one, and
\* otherwise suspends on a Deferred that is rejected at once, so that the
\* call then fails with CancellationTokenCancelledError.
C30_WakeCancelRace == [][C30_Step]_vars

C30_Witness ==
  /\ cancelled
  /\ symbols = 1
  /\ Len(calls) = 1
  /\ Woken(1)
  /\ calls[1].deferred = 1
  /\ calls[1].unregister = 1
  /\ Drain(snapshots, waitOptions).found

\* -------------------------------------------------------------------- C31
\* this step is the entry of a call that fails with the usage error
RejectedEntry ==
  /\ StartsCall
  /\ calls'[Len(calls')].result = Threw(UsageError)

\* some earlier call was turned away with the usage error
SomeRejected ==
  \E j \in 1..Len(calls) : calls[j].result = Threw(UsageError)

\* the token holds the rejecting callback of suspended call c
WaitRegistered(c) ==
  \E i \in RejectEntries :
    /\ onCancelledCallbacks[i].id = calls[c].unregister
    /\ onCancelledCallbacks[i].target = calls[c].deferred

C31_Inv ==
  \A c \in 1..Len(calls) :
    (Suspended(c) /\ SomeRejected) =>
      /\ onChange = calls[c].deferred
      /\ WaitRegistered(c)

C31_Step ==
  \* a call entered while a wait is outstanding is the rejected one
  /\ (StartsCall /\ onChange # 0) => RejectedEntry
  \* the rejected call changes nothing but its own record
  /\ RejectedEntry =>
       /\ UNCHANGED <<snapshots, error, completed, onChange, deferreds,
                      onCancelledCallbacks, symbols, cancelled,
                      onCancelledDeferred, regs, nextEvent>>
       /\ \A c \in 1..Len(calls) : calls'[c] = calls[c]
       /\ calls'[Len(calls')].pc = "done"
  \* after it the suspended wait is still woken by next, error and complete
  \* and still rejected by cancel
  /\ \A c \in 1..Len(calls) :
       (Suspended(c) /\ SomeRejected) =>
         /\ (nextEvent' # nextEvent \/ error' # error \/ completed' # completed) =>
              deferreds'[calls[c].deferred].state = "resolved"
         /\ (~cancelled /\ cancelled') =>
              deferreds'[calls[c].deferred] =
                [state |-> "rejected", result |-> "", error |-> CancelledError]

\* C31: a waitForSnapshot call entered while a wait is outstanding fails with
\* the usage error and changes nothing else: the buffer, error, completed,
\* the wake callback, the token's callbacks and every Deferred stay as they
\* were; the suspended wait keeps its wake callback and its registration
\* with the token, and a later next, error or complete still wakes it and a
\* later cancel still rejects it.
C31_RejectedCallFrame == []C31_Inv /\ [][C31_Step]_vars

C31_Witness ==
  /\ Len(calls) = 2
  /\ calls[2].result = Threw(UsageError)
  /\ calls[1].result.kind = "returned"
  /\ calls[1].result.snapshot.id = 1
  /\ onChange = 0
  /\ RejectEntries = {}

\* -------------------------------------------------------------------- C32
\* call c was woken by next: its Deferred is resolved and the listener has
\* neither an error nor the completion
WokenByNext(c) == Woken(c) /\ error = NoError /\ ~completed

\* pushed event e is gone: it is not buffered and no call has returned it
Lost(e) ==
  /\ e <= nextEvent
  /\ \A i \in 1..Len(snapshots) : snapshots[i].id # e
  /\ \A c \in 1..Len(calls) :
       calls[c].result.kind = "returned" => calls[c].result.snapshot.id # e

C32_Step ==
  \* clear() between the wake and the continuation empties the buffer and
  \* leaves the call woken
  /\ \A c \in 1..Len(calls) :
       (Woken(c) /\ Clear) => (snapshots' = <<>> /\ Woken(c)')
  \* the continuation then finds nothing: it neither returns nor fails and
  \* awaits a new Deferred
  /\ \A c \in 1..Len(calls) :
       (WokenByNext(c) /\ snapshots = <<>> /\ calls'[c] # calls[c]) =>
         /\ calls'[c].pc = "awaiting"
         /\ calls'[c].result = NoResult
         /\ calls'[c].deferred = Len(deferreds) + 1
         /\ onChange' = calls'[c].deferred
         /\ snapshots' = <<>>
         /\ ~cancelled => deferreds'[calls'[c].deferred].state = "pending"
  \* an event that is gone stays gone
  /\ \A e \in 1..MaxEvents : Lost(e) => Lost(e)'

\* C32: when next(e) has woken a suspended waitForSnapshot call and clear()
\* runs before the call's continuation, the buffer is empty when the
\* continuation runs: the call does not return e and does not fail, it
\* awaits a new Deferred; and e, being neither buffered nor returned, is
\* never returned by any later call.
C32_WakeClearRace == [][C32_Step]_vars

C32_Witness ==
  /\ waitOptions = NoOptions
  /\ error = NoError /\ ~completed /\ ~cancelled
  /\ Len(calls) = 1
  /\ calls[1].result.kind = "returned"
  /\ calls[1].result.snapshot.id = 2
  /\ Len(deferreds) = 2
  /\ deferreds[1].state = "resolved"
  /\ Lost(1)

\* -------------------------------------------------------------------- C33
\* the getFirestore calls made so far that returned
ReturnedFirestore(i) ==
  /\ i \in 1..Len(firestore.calls)
  /\ firestore.calls[i].kind = "returned"

C33_Inv ==
  \* initializeApp was called at most once for a key, and never twice with
  \* one app name
  /\ \A i, j \in 1..Len(firestore.initializeApp) :
       (\/ firestore.initializeApp[i].key = firestore.initializeApp[j].key
        \/ firestore.initializeApp[i].name = firestore.initializeApp[j].name)
         => i = j
  \* a Firestore object was created at most once for a key, and at most
  \* once on an app
  /\ \A i, j \in 1..Len(firestore.created) :
       (\/ firestore.created[i].key = firestore.created[j].key
        \/ firestore.created[i].app = firestore.created[j].app)
         => i = j
  \* calls with the same key that returned, returned the same db
  /\ \A i, j \in 1..Len(firestore.calls) :
       (/\ ReturnedFirestore(i) /\ ReturnedFirestore(j)
        /\ firestore.calls[i].key = firestore.calls[j].key)
         => firestore.calls[i].info = firestore.calls[j].info
  \* a call fails only for the placeholder project id or the missing
  \* platform, never because a cache entry exists already
  /\ \A i \in 1..Len(firestore.calls) :
       firestore.calls[i].kind = "threw" =>
         firestore.calls[i].error \in
           {PlaceholderProjectIdNotAllowedError, NotYetInvoked}

C33_Step ==
  \* once a call with a key has returned, a later call with that key returns
  (Len(firestore.calls') = Len(firestore.calls) + 1) =>
    \A i \in 1..Len(firestore.calls) :
      (/\ ReturnedFirestore(i)
       /\ firestore.calls[i].key = firestore.calls'[Len(firestore.calls')].key)
        => /\ firestore.calls'[Len(firestore.calls')].kind = "returned"
           /\ firestore.initializeApp' = firestore.initializeApp
           /\ firestore.created' = firestore.created

\* C33: over any sequence of getFirestore(settings, instanceId) calls,
\* initializeApp is called at most once and a Firestore object is created at
\* most once for each key (host, projectId, apiKey, instanceId); once a call
\* with a key has returned, every later call with that key returns the same
\* db and creates nothing; and no call fails with 'Entry for ... already
\* exists'.
C33_InstanceCache == []C33_Inv /\ [][C33_Step]_vars

C33_Witness ==
  /\ Len(firestore.calls) = 3
  /\ \A i \in 1..3 : ReturnedFirestore(i)
  /\ firestore.calls[1].key = firestore.calls[3].key
  /\ firestore.calls[1].key # firestore.calls[2].key
  /\ firestore.calls[1].info.db = firestore.calls[3].info.db
  /\ firestore.calls[1].info.db # firestore.calls[2].info.db
  /\ Len(firestore.initializeApp) = 2
  /\ Len(firestore.created) = 2

\* -------------------------------------------------------------------- C34
\* go() has run to its end
GoDone == node.pc = "done"

LastLogged == IF node.log = <<>> THEN "" ELSE node.log[Len(node.log)]

C34_Inv ==
  \* terminate(db) is called only after runTheTest has settled, and once
  /\ node.terminated > 0 => (run.pc = "done" /\ node.terminated = 1)
  \* the death handler is installed only when getFirestore has succeeded
  /\ node.death # "none" <=> node.db # 0
  /\ GoDone =>
       \* after a getFirestore that succeeded, terminate(db) was called
       /\ node.db # 0 => (node.terminated = 1 /\ run.pc = "done")
       \* the death handler is not left installed
       /\ node.death # "installed"
       \* 'Test completed' is the last thing logged and nothing was thrown
       /\ LastLogged = "Test completed"
       /\ node.escaped = ""

C34_Step ==
  \* the death handler is removed only at the end of go()
  /\ (node.death = "installed" /\ node'.death # "installed") =>
       (node'.death = "unsubscribed" /\ GoDone')
  \* go() stays at its end
  /\ GoDone => UNCHANGED node

\* C34: in go(), once getFirestore has succeeded, terminate(db) is called
\* exactly once and only after runTheTest has settled, whether it returned,
\* threw or was cancelled by a death signal; when go() ends the death handler
\* it installed has been unsubscribed, 'Test completed' is the last line
\* logged and no error has left go(); and once runTheTest has settled, go()
\* does reach its end.
C34_Shutdown ==
  /\ []C34_Inv
  /\ [][C34_Step]_vars
  /\ ((node.pc = "running" /\ run.pc = "done") ~> GoDone)

C34_Witness ==
  /\ GoDone
  /\ cancelled
  /\ run.kind = "threw"
  /\ run.error = CancelledError
  /\ node.death = "unsubscribed"
  /\ node.terminated = 1
  /\ node.log = <<"Test Started", "Terminating Firestore",
                  "ERROR: operation cancelled", "Test completed">>

\* -------------------------------------------------------------------- C35
IllegalStates == {Threw(IllegalStateNotNull), Threw(IllegalStateNotOwn)}

\* the call that set this.onChange: the one awaiting the Deferred it resolves
Owner(c) ==
  /\ c \in 1..Len(calls)
  /\ Awaiting(c)
  /\ calls[c].deferred = onChange

C35_Inv ==
  \* neither check has fired
  /\ \A c \in 1..Len(calls) : calls[c].result \notin IllegalStates
  \* a wake callback that is set belongs to exactly one outstanding call,
  \* and an outstanding call has its wake callback set
  /\ onChange # 0 => \E c \in 1..Len(calls) : Owner(c)
  /\ \A c \in 1..Len(calls) : Awaiting(c) => Owner(c)

C35_Step ==
  \* this.onChange is cleared or replaced only by the continuation of the
  \* call that set it
  /\ (onChange # 0 /\ onChange' # onChange) =>
       \E c \in 1..Len(calls) : Owner(c) /\ calls'[c] # calls[c]
  \* and it is set only by a call that found it null
  /\ (onChange' # 0 /\ onChange' # onChange) =>
       \E c \in 1..Len(calls') :
         /\ calls'[c].pc = "awaiting"
         /\ calls'[c].deferred = onChange'
         /\ (c > Len(calls) => onChange = 0)
         /\ (c <= Len(calls) => Owner(c))

\* C35: under every interleaving of waitForSnapshot, next, error, complete,
\* clear and cancel, no call fails with 'illegal state: this.onChange !==
\* null' or 'illegal state: this.onChange !== onChange'; this.onChange, when
\* set, is the wake callback of the one outstanding call, and only that
\* call's continuation clears it.
C35_IllegalStateUnreachable == []C35_Inv /\ [][C35_Step]_vars

C35_Witness ==
  /\ Len(calls) = 2
  /\ calls[1].result.kind = "returned"
  /\ Len(deferreds) = 3
  /\ deferreds[1].state = "resolved"
  /\ deferreds[2].state = "resolved"
  /\ Owner(2)
  /\ onChange = 3
  /\ cancelled
  /\ deferreds[3].state = "rejected"

\* -------------------------------------------------------------------- C36
\* performWritesInBatches has been called
BatchCalled == batch.fn = "performWritesInBatches"

\* the items the callback wrote to batch b
WritesOf(b) == {i \in 1..Len(batch.callbacks) : batch.callbacks[i].batch = b}

\* C36: performWritesInBatches calls the callback once per item, in list
\* order; the i-th item goes to batch (i - 1) \div 500 + 1, so a batch is
\* filled before the next one is created and every created batch gets
\* between 1 and 500 writes; the batches committed are exactly the batches
\* created, each once; an empty list creates and commits no batch.
C36_BatchPartition ==
  BatchCalled =>
    /\ Len(batch.callbacks) = Len(batch.items)
    /\ \A i \in 1..Len(batch.items) :
         /\ batch.callbacks[i].item = batch.items[i]
         /\ batch.callbacks[i].batch = ((i - 1) \div BatchLimit) + 1
    /\ \A b \in 1..batch.created :
         /\ Cardinality(WritesOf(b)) >= 1
         /\ Cardinality(WritesOf(b)) <= BatchLimit
         /\ b < batch.created => Cardinality(WritesOf(b)) = BatchLimit
    /\ \A i \in 1..Len(batch.callbacks) :
         batch.callbacks[i].batch \in 1..batch.created
    /\ batch.commits = [b \in 1..batch.created |-> b]
    /\ batch.items = <<>> => (batch.created = 0 /\ batch.commits = <<>>)

C36_Witness ==
  /\ BatchCalled
  /\ Len(batch.items) = 1001
  /\ batch.items[1] = 1001
  /\ batch.created = 3
  /\ batch.commits = <<1, 2, 3>>
  /\ batch.callbacks[500] = [batch |-> 1, item |-> 502]
  /\ batch.callbacks[501] = [batch |-> 2, item |-> 501]
  /\ batch.callbacks[1001] = [batch |-> 3, item |-> 1]


TypeOK ==
  /\ error \in FirestoreErrors \cup {NoError}
  /\ completed \in BOOLEAN
  /\ cancelled \in BOOLEAN
  /\ onChange \in 0..Len(deferreds)
  /\ Len(calls) <= MaxCalls
====
